---- MODULE Spec2Model ----
(***************************************************************************)
(* Model of two parts of the workflow engine:                              *)
(*   - the Helm environment commit operations of service/helm/helm.go      *)
(*     (UpdateHelmServiceInEnv, UpdateHelmAllServicesInEnv,                *)
(*     UpdateHelmServicesGroupInEnv), run by concurrent callers on one     *)
(*     (productName, envName);                                             *)
(*   - the testing job task assembler (TestingJob.toJobtask);               *)
(*   - the operations of one testing job of a workflow (SetPreset,         *)
(*     MergeArgs, ToJobs, getOriginReferedJobTargets, LintJob, GetOutPuts).*)
(***************************************************************************)
EXTENDS Integers, Sequences, FiniteSets, TLC

(***************************************************************************)
(* Bounds                                                                  *)
(***************************************************************************)
\* number of commit operations started in one behaviour
MaxOps == 2

\* concurrent callers of the commit operations
Procs == {"p1", "p2"}
NoProc == "none"

(***************************************************************************)
(* Services of an environment                                              *)
(***************************************************************************)
HelmDeployType == "helm"
HelmChartDeployType == "helm_chart"

ServiceDeployStrategyDeploy == "deploy"
ServiceDeployStrategyImport == "import"

NativeSvc(n, r, v, s) ==
    [ServiceName |-> n, ReleaseName |-> r, Type |-> HelmDeployType,
     Revision |-> v, DeployStrategy |-> s]

ChartSvc(r, v, s) ==
    [ServiceName |-> "", ReleaseName |-> r, Type |-> HelmChartDeployType,
     Revision |-> v, DeployStrategy |-> s]

\* ProductService.FromZadig: a service built from a tracked service definition
FromZadig(svc) == svc.Type # HelmChartDeployType

RECURSIVE Flatten(_)
Flatten(groups) ==
    IF groups = <<>> THEN <<>> ELSE Head(groups) \o Flatten(Tail(groups))

\* Product.GetServiceMap: native services keyed by service name, a later
\* entry of a name overwriting an earlier one
GetServiceMap(services) ==
    LET flat == SelectSeq(Flatten(services), FromZadig)
        names == {flat[i].ServiceName : i \in DOMAIN flat}
        last(n) == CHOOSE i \in DOMAIN flat :
                      /\ flat[i].ServiceName = n
                      /\ \A j \in DOMAIN flat : flat[j].ServiceName = n => j <= i
    IN [n \in names |-> flat[last(n)]]

IsChart(svc) == ~FromZadig(svc)

\* Product.GetChartServiceMap: imported chart releases keyed by release name
GetChartServiceMap(services) ==
    LET flat == SelectSeq(Flatten(services), IsChart)
        rels == {flat[i].ReleaseName : i \in DOMAIN flat}
        last(r) == CHOOSE i \in DOMAIN flat :
                      /\ flat[i].ReleaseName = r
                      /\ \A j \in DOMAIN flat : flat[j].ReleaseName = r => j <= i
    IN [r \in rels |-> flat[last(r)]]

\* the key under which LintServices tracks a service
LintKey(svc) == IF FromZadig(svc) THEN <<"svc", svc.ServiceName>>
                ELSE <<"chart", svc.ReleaseName>>

RECURSIVE LintGroup(_, _)
LintGroup(group, seen) ==
    IF group = <<>> THEN <<>>
    ELSE IF LintKey(Head(group)) \in seen
         THEN LintGroup(Tail(group), seen)
         ELSE <<Head(group)>> \o LintGroup(Tail(group), seen \cup {LintKey(Head(group))})

KeysOf(group) == {LintKey(group[i]) : i \in DOMAIN group}

RECURSIVE LintFrom(_, _)
LintFrom(groups, seen) ==
    IF groups = <<>> THEN <<>>
    ELSE <<LintGroup(Head(groups), seen)>>
         \o LintFrom(Tail(groups), seen \cup KeysOf(Head(groups)))

\* Product.LintServices: drops repeated entries of one service, keeps the groups
LintServices(services) == LintFrom(services, {})

\* a Go map delete
MapDelete(m, k) == [x \in (DOMAIN m) \ {k} |-> m[x]]

\* a Go map assignment
MapPut(m, k, v) == [x \in (DOMAIN m) \cup {k} |-> IF x = k THEN v ELSE m[x]]

\* the iteration orders a Go range over the values of map m can take
MapOrders(m) ==
    LET n == Cardinality(DOMAIN m)
    IN {[i \in 1..n |-> m[o[i]]] :
          o \in {f \in [1..n -> DOMAIN m] : \A i, j \in 1..n : i # j => f[i] # f[j]}}

(***************************************************************************)
(* Orchestration reconciler                                                *)
(***************************************************************************)
\* "set services in order": the services of one template group found in the map
RECURSIVE SetServicesInOrder(_, _, _, _)
SetServicesInOrder(svcGroup, productSvcMap, newServices, i) ==
    IF svcGroup = <<>> \/ newServices.panic THEN newServices
    ELSE IF Head(svcGroup) \in DOMAIN productSvcMap
         THEN IF i + 1 > Len(newServices.groups)
              THEN [panic |-> TRUE, groups |-> newServices.groups]
              ELSE SetServicesInOrder(Tail(svcGroup), productSvcMap,
                       [newServices EXCEPT !.groups[i + 1] =
                            Append(@, productSvcMap[Head(svcGroup)])], i)
         ELSE SetServicesInOrder(Tail(svcGroup), productSvcMap, newServices, i)

\* "init slice": the group is appended when len(newServices) >= i
InitSlice(newServices, i) ==
    IF Len(newServices.groups) >= i
    THEN [newServices EXCEPT !.groups = Append(@, <<>>)]
    ELSE newServices

\* the loop over serviceOrchestration, i counting from 0 as in the source
RECURSIVE ReplayOrchestration(_, _, _, _)
ReplayOrchestration(serviceOrchestration, productSvcMap, newServices, i) ==
    IF i >= Len(serviceOrchestration) \/ newServices.panic THEN newServices
    ELSE ReplayOrchestration(serviceOrchestration, productSvcMap,
             SetServicesInOrder(serviceOrchestration[i + 1], productSvcMap,
                                InitSlice(newServices, i), i),
             i + 1)

\* variant: the chart services are appended to the first group
RECURSIVE AppendChartServices_First(_, _)
AppendChartServices_First(newServices, charts) ==
    IF charts = <<>> \/ newServices.panic THEN newServices
    ELSE IF Len(newServices.groups) = 0
         THEN [panic |-> TRUE, groups |-> newServices.groups]
         ELSE AppendChartServices_First(
                  [newServices EXCEPT !.groups[1] = Append(@, Head(charts))],
                  Tail(charts))

\* "append chart services to the last group", charts in one iteration order
RECURSIVE AppendChartServices(_, _)
AppendChartServices(newServices, charts) ==
    IF charts = <<>> \/ newServices.panic THEN newServices
    ELSE IF Len(newServices.groups) = 0
         THEN [panic |-> TRUE, groups |-> newServices.groups]
         ELSE AppendChartServices(
                  [newServices EXCEPT !.groups[Len(newServices.groups)] =
                       Append(@, Head(charts))],
                  Tail(charts))

\* the grouped list built by UpdateHelmServiceInEnv / UpdateHelmAllServicesInEnv
Reconcile(serviceOrchestration, productSvcMap, charts) ==
    AppendChartServices(
        ReplayOrchestration(serviceOrchestration, productSvcMap,
                            [panic |-> FALSE, groups |-> <<>>], 0),
        charts)

\* the single group built by UpdateHelmServicesGroupInEnv
ReconcileGroup(serviceOrchestration, productSvcMap, charts) ==
    LET flat == SelectSeq(Flatten(serviceOrchestration),
                          LAMBDA n : n \in DOMAIN productSvcMap)
    IN [k \in 1..Len(flat) |-> productSvcMap[flat[k]]] \o charts

\* the maps of UpdateHelmServiceInEnv after the updated service is applied
ApplyNative(productSvcMap, productSvc) ==
    MapPut(productSvcMap, productSvc.ServiceName, productSvc)

ApplyNativeChartMap(productChartSvcMap, productSvc) ==
    MapDelete(productChartSvcMap, productSvc.ReleaseName)

ApplyChart(productChartSvcMap, productSvc) ==
    MapPut(productChartSvcMap, productSvc.ReleaseName, productSvc)

\* the loop with break: one native entry of the release name is deleted,
\* whichever the map iteration meets first
ApplyChartSvcMaps(productSvcMap, productSvc) ==
    LET hits == {n \in DOMAIN productSvcMap :
                    productSvcMap[n].ReleaseName = productSvc.ReleaseName}
    IN IF hits = {} THEN {productSvcMap}
       ELSE {MapDelete(productSvcMap, n) : n \in hits}

\* commonutil.Set(Chart)ServiceDeployStrategy{Depoly,Import}: the strategy map
\* keyed by service name, or by release name for a chart release
StrategyKey(productSvc) ==
    IF FromZadig(productSvc) THEN <<"svc", productSvc.ServiceName>>
    ELSE <<"chart", productSvc.ReleaseName>>

SetDeployStrategy(strategy, productSvc) ==
    IF productSvc.DeployStrategy \in {ServiceDeployStrategyDeploy, ServiceDeployStrategyImport}
    THEN MapPut(strategy, StrategyKey(productSvc), productSvc.DeployStrategy)
    ELSE strategy

(***************************************************************************)
(* Inputs                                                                  *)
(***************************************************************************)
A1 == NativeSvc("a", "ra", 1, ServiceDeployStrategyDeploy)
B1 == NativeSvc("b", "rb", 1, ServiceDeployStrategyDeploy)
C1svc == NativeSvc("c", "rc", 1, ServiceDeployStrategyDeploy)
R1 == ChartSvc("r1", 1, ServiceDeployStrategyImport)

\* the updated service handed to UpdateHelmServiceInEnv
SvcInputs ==
    { NativeSvc("b", "rb", 2, ServiceDeployStrategyDeploy),
      NativeSvc("b", "ra", 2, ServiceDeployStrategyImport),
      NativeSvc("a", "r1", 2, ServiceDeployStrategyDeploy),
      ChartSvc("ra", 1, "") }

\* the grouped list handed to UpdateHelmAllServicesInEnv
AllInputs ==
    { << <<B1>>, <<R1, A1>> >>,
      << <<R1>> >> }

\* the group and index handed to UpdateHelmServicesGroupInEnv
GroupInputs ==
    { [index |-> 0, group |-> <<B1, A1>>],
      [index |-> 1, group |-> <<R1, C1svc>>] }

\* the project template: the test and the production orchestration
Templates ==
    { [Services |-> << <<"a", "b">>, <<"c">> >>, ProductionServices |-> <<>>] }

EmptyStrategy == [k \in {} |-> ""]

NoDoc == [Services |-> <<>>, ServiceDeployStrategy |-> EmptyStrategy,
          Production |-> FALSE, rev |-> 0]

\* the environment documents a behaviour starts from
InitialEnvs ==
    { [NoDoc EXCEPT !.Services = s, !.Production = b] :
         s \in { <<>>, << <<A1, B1>>, <<C1svc, R1>> >> }, b \in BOOLEAN }

NoOp == [kind |-> "none", productSvc |-> R1, services |-> <<>>, index |-> 0,
         production |-> FALSE]
NoSnap == [set |-> FALSE, doc |-> NoDoc]

(***************************************************************************)
(* State                                                                   *)
(***************************************************************************)
VARIABLES
    db,              \* the persisted environment document of (productName, envName)
    template,        \* the template product of productName
    lock,            \* holder of the lock UpdateHelmEnv:productName:envName
    pc,              \* position of each caller inside its commit operation
    op,              \* the operation and arguments of each caller
    txn,             \* state of each caller's session transaction
    snap,            \* read snapshot of each caller's transaction
    newProductInfo,  \* the environment read by UpdateHelmServiceInEnv
    newServices,     \* the reconciled list of the other two operations
    write,           \* the document written inside the transaction
    ret,             \* result of each caller's last operation
    verErr,          \* err of CreateEnvServiceVersion, logged by the operation
    started          \* number of operations started

helmVars == <<db, template, lock, pc, op, txn, snap, newProductInfo, newServices,
              write, ret, verErr, started>>

HelmInit ==
    /\ db \in InitialEnvs
    /\ template \in Templates
    /\ lock = NoProc
    /\ pc = [p \in Procs |-> "idle"]
    /\ op = [p \in Procs |-> NoOp]
    /\ txn = [p \in Procs |-> "none"]
    /\ snap = [p \in Procs |-> NoSnap]
    /\ newProductInfo = [p \in Procs |-> NoDoc]
    /\ newServices = [p \in Procs |-> <<>>]
    /\ write = [p \in Procs |-> NoSnap]
    /\ ret = [p \in Procs |-> "none"]
    /\ verErr = [p \in Procs |-> FALSE]
    /\ started = 0

(***************************************************************************)
(* Testing job task assembler: constants                                   *)
(***************************************************************************)
JobVMInfrastructure == "vm"
JobK8sInfrastructure == "kubernetes"

ObjectMedium == "object"
NFSMedium == "nfs"

WorkspaceCacheDir == "workspace"
UserDefinedCacheDir == "user_defined"

ScriptTypeShell == "shell"
ScriptTypeBatchFile == "batch_file"
ScriptTypePowerShell == "powershell"

ProductTestType == ""
ServiceTestType == "service_test"

StepTools == "tools"
StepDownloadArchive == "download_archive"
StepGit == "git"
StepDebugBefore == "debug_before"
StepShell == "shell"
StepBatchFile == "batch_file"
StepPowerShell == "powershell"
StepDebugAfter == "debug_after"
StepArchive == "archive"
StepTarArchive == "tar_archive"
StepJunitReport == "junit_report"

TestJobHTMLReportStepName == "archive-html-report"
TestJobArchiveResultStepName == "archive-result"
TestJobJunitReportStepName == "junit-report"
TestJobObjectStorageStepName == "object-storage"

(***************************************************************************)
(* Testing job task assembler: helpers                                     *)
(***************************************************************************)
\* a path template: literal text and $VARIABLE references
Lit(text) == [var |-> FALSE, text |-> text]
Var(name) == [var |-> TRUE, text |-> name]

KeyVal(k, v) == [Key |-> k, Value |-> v]

KeysIn(kvs) == {kvs[i].Key : i \in DOMAIN kvs}

\* the value of the first entry of kvs with key k
Lookup(kvs, k) ==
    kvs[CHOOSE i \in DOMAIN kvs :
           kvs[i].Key = k /\ \A j \in DOMAIN kvs : kvs[j].Key = k => i <= j].Value

\* renderEnv: every $VARIABLE with an entry in kvs is replaced by its value,
\* a reference without entry is left as it is
renderEnv(data, kvs) ==
    [i \in DOMAIN data |->
        IF data[i].var /\ data[i].text \in KeysIn(kvs)
        THEN Lit(Lookup(kvs, data[i].text))
        ELSE data[i]]

\* renderKeyVals: the job-level values first, then the catalog defaults of
\* the keys the job does not set
renderKeyVals(input, origin) ==
    input \o SelectSeq(origin, LAMBDA kv : kv.Key \notin KeysIn(input))

\* PrepareDefaultWorkflowTaskEnvs: the variables of the workflow task
PrepareDefaultWorkflowTaskEnvs(workflowName, taskID) ==
    <<KeyVal("WORKFLOW", workflowName), KeyVal("TASK_ID", taskID)>>

\* getReposVariables: the variables of the checked out repositories
getReposVariables(repos) ==
    IF repos = <<>> THEN <<>> ELSE <<KeyVal("REPONAME_0", repos[1])>>

\* getTestingJobVariables
getTestingJobVariables(repos, taskID, workflowName, testing, testType, svc, module) ==
    PrepareDefaultWorkflowTaskEnvs(workflowName, taskID)
    \o getReposVariables(repos)
    \o <<KeyVal("TESTING_PROJECT", testing.ProjectName),
         KeyVal("TESTING_NAME", testing.Name),
         KeyVal("TESTING_TYPE", testType),
         KeyVal("SERVICE", svc),
         KeyVal("SERVICE_NAME", svc),
         KeyVal("SERVICE_MODULE", module),
         KeyVal("BUILD_URL", "url")>>

\* the workflow and job the compiled task belongs to
WorkflowName == "wf"
JobName == "test-job"
TaskID == "7"

(***************************************************************************)
(* Testing job task assembler: inputs                                      *)
(***************************************************************************)
\* the catalog definitions of the test suite (TestingInfo)
TestingInfos ==
    [ Infrastructure : {JobVMInfrastructure, JobK8sInfrastructure},
      CacheEnable    : BOOLEAN,
      CacheDirType   : {WorkspaceCacheDir, UserDefinedCacheDir},
      CacheUserDir   : { <<Lit("/cache")>>, <<Var("WORKFLOW"), Lit("/cache")>> },
      ScriptType     : {"", ScriptTypeShell, ScriptTypeBatchFile, ScriptTypePowerShell,
                        "python"},
      TestReportPath : {"", "report"},
      ArtifactPaths  : { <<>>, <<"">>, <<"out">>, <<"", "out">> },
      TestResultPath : {"", "junit"},
      PostTest       : {"nil", "disabled", "enabled"},
      Envs           : { <<KeyVal("LEVEL", "catalog")>> } ]

\* the cache configurations of the cluster (clusterInfo.Cache)
ClusterCaches ==
    [ MediumType : {"", ObjectMedium, NFSMedium},
      Subpath    : { <<Var("TESTING_NAME"), Lit("/"), Var("LEVEL")>> },
      ObjectID   : {"s3-cache"} ]

\* the test module of the job and the target it is compiled for
ToJobtaskArgs ==
    { [testing |-> [Name |-> "t1", ProjectName |-> "proj",
                    KeyVals |-> <<KeyVal("LEVEL", "job")>>, Repos |-> <<"repo1">>],
       testType |-> ProductTestType, serviceName |-> "", serviceModule |-> ""],
      [testing |-> [Name |-> "t1", ProjectName |-> "proj",
                    KeyVals |-> <<>>, Repos |-> <<>>],
       testType |-> ServiceTestType, serviceName |-> "svcA", serviceModule |-> "modA"] }

RandStrs == {"x7k2p"}

NoArgs == [testing |-> [Name |-> "", ProjectName |-> "", KeyVals |-> <<>>, Repos |-> <<>>],
           testType |-> "", serviceName |-> "", serviceModule |-> ""]

\* the zero value of commonmodels.JobProperties and of the task around it
NoCache == [MediumType |-> "", Subpath |-> <<>>, ObjectID |-> ""]

NoTask ==
    [Name |-> <<>>, Key |-> <<>>, Infrastructure |-> "",
     CustomEnvs |-> <<>>, Envs |-> <<>>,
     CacheEnable |-> FALSE, CacheDirType |-> "", CacheUserDir |-> <<>>,
     Cache |-> NoCache, Steps |-> <<>>]

(***************************************************************************)
(* Testing job task assembler: toJobtask                                   *)
(***************************************************************************)
\* a commonmodels.StepTask
StepTask(name, jobName, stepType, onfailure, spec) ==
    [Name |-> name, JobName |-> jobName, StepType |-> stepType,
     Onfailure |-> onfailure, Spec |-> spec]

\* the task and its properties as built before the cluster lookup
NewJobTask(a, info, randStr) ==
    [NoTask EXCEPT
        !.Name = IF a.testType = ServiceTestType
                 THEN <<a.serviceName, a.serviceModule, JobName>>
                 ELSE <<a.testing.Name, JobName, randStr>>,
        !.Key = IF a.testType = ServiceTestType
                THEN <<JobName, a.testing.Name, a.serviceName, a.serviceModule>>
                ELSE <<JobName, a.testing.Name>>,
        !.Infrastructure = info.Infrastructure,
        !.CustomEnvs = renderKeyVals(a.testing.KeyVals, info.Envs)]

\* variant: the cluster's empty cache medium is not looked at
ClusterCacheProperties_NoMediumCheck(task, info, cache) ==
    [task EXCEPT !.Cache = cache,
                 !.CacheEnable = info.CacheEnable,
                 !.CacheDirType = info.CacheDirType,
                 !.CacheUserDir = info.CacheUserDir]

\* the cache properties of a task on cluster infrastructure, before rendering
ClusterCacheProperties(task, info, cache) ==
    IF cache.MediumType = ""
    THEN [task EXCEPT !.CacheEnable = FALSE]
    ELSE [task EXCEPT !.Cache = cache,
                      !.CacheEnable = info.CacheEnable,
                      !.CacheDirType = info.CacheDirType,
                      !.CacheUserDir = info.CacheUserDir]

\* the cache directory and the NFS subpath rendered against Properties.Envs
RenderCache(task) ==
    [task EXCEPT !.CacheUserDir = renderEnv(@, task.Envs),
                 !.Cache.Subpath = IF task.Cache.MediumType = NFSMedium
                                   THEN renderEnv(@, task.Envs) ELSE @]

\* the cache track of toJobtask; found1 and found2 tell whether the two
\* lookups of the cache object store succeed
CacheProperties(task, info, cache, found1, found2) ==
    IF task.Infrastructure = JobVMInfrastructure
    THEN [err |-> FALSE,
          task |-> [task EXCEPT !.CacheEnable = info.CacheEnable,
                                !.CacheDirType = info.CacheDirType,
                                !.CacheUserDir = info.CacheUserDir]]
    ELSE LET t1 == ClusterCacheProperties(task, info, cache)
         IN IF t1.Cache.MediumType = ObjectMedium /\ ~found1
            THEN [err |-> TRUE, task |-> t1]
            ELSE IF t1.CacheEnable
                 THEN [err |-> t1.Cache.MediumType = ObjectMedium /\ ~found2,
                       task |-> RenderCache(t1)]
                 ELSE [err |-> FALSE, task |-> t1]

\* Properties.Envs: the custom variables, then the variables of the task
TaskEnvs(task, a) ==
    task.CustomEnvs
    \o getTestingJobVariables(a.testing.Repos, TaskID, WorkflowName, a.testing,
                              a.testType, a.serviceName, a.serviceModule)

\* the directory the object cache is unpacked to and packed from
CacheDir(task) ==
    IF task.CacheDirType = UserDefinedCacheDir THEN task.CacheUserDir
    ELSE <<Lit("/workspace")>>

ObjectCacheEnabled(task) ==
    task.CacheEnable /\ task.Cache.MediumType = ObjectMedium

ToolInstallStep(a, task) ==
    StepTask(<<a.testing.Name, "tool-install">>, task.Name, StepTools, FALSE,
             [Installs |-> <<>>])

DownloadArchiveSteps(a, task) ==
    IF ObjectCacheEnabled(task)
    THEN <<StepTask(<<a.testing.Name, "download-archive">>, task.Name,
                    StepDownloadArchive, FALSE,
                    [UnTar |-> TRUE, IgnoreErr |-> TRUE, DestDir |-> CacheDir(task)])>>
    ELSE <<>>

GitStep(a, task) ==
    StepTask(<<a.testing.Name, "git">>, task.Name, StepGit, FALSE,
             [Repos |-> a.testing.Repos])

DebugBeforeStep(a, task) ==
    StepTask(<<a.testing.Name, "debug_before">>, task.Name, StepDebugBefore, FALSE, [none |-> TRUE])

\* the script step: its name, type and spec stay empty for a script type
\* that is none of shell, batch file and powershell
ScriptStep(a, info, task) ==
    IF info.ScriptType = ScriptTypeShell \/ info.ScriptType = ""
    THEN StepTask(<<a.testing.Name, "shell">>, task.Name, StepShell, FALSE,
                  [Scripts |-> "scripts"])
    ELSE IF info.ScriptType = ScriptTypeBatchFile
    THEN StepTask(<<a.testing.Name, "batchfile">>, task.Name, StepBatchFile, FALSE,
                  [Scripts |-> "scripts"])
    ELSE IF info.ScriptType = ScriptTypePowerShell
    THEN StepTask(<<a.testing.Name, "powershell">>, task.Name, StepPowerShell, FALSE,
                  [Scripts |-> "scripts"])
    ELSE StepTask(<<>>, task.Name, "", FALSE, [none |-> TRUE])

DebugAfterStep(a, task) ==
    StepTask(<<a.testing.Name, "debug_after">>, task.Name, StepDebugAfter, FALSE, [none |-> TRUE])

\* variant: the HTML archive step is guarded by the result path
HtmlArchiveSteps_ResultPath(info, task) ==
    IF info.TestResultPath # ""
    THEN <<StepTask(<<TestJobHTMLReportStepName>>, task.Name, StepArchive, TRUE,
                    [FilePath |-> info.TestReportPath,
                     DestinationPath |-> <<WorkflowName, TaskID, task.Name, "html">>])>>
    ELSE <<>>

HtmlArchiveSteps(info, task) ==
    IF info.TestReportPath # ""
    THEN <<StepTask(<<TestJobHTMLReportStepName>>, task.Name, StepArchive, TRUE,
                    [FilePath |-> info.TestReportPath,
                     DestinationPath |-> <<WorkflowName, TaskID, task.Name, "html">>])>>
    ELSE <<>>

DestDir(info) ==
    IF info.ScriptType = ScriptTypeBatchFile THEN "%TMP%"
    ELSE IF info.ScriptType = ScriptTypePowerShell THEN "%TMP%"
    ELSE "/tmp"

ResultArchiveSteps(info, task) ==
    IF Len(info.ArtifactPaths) > 0
       /\ (Len(info.ArtifactPaths) > 1 \/ info.ArtifactPaths[1] # "")
    THEN <<StepTask(<<TestJobArchiveResultStepName>>, task.Name, StepTarArchive, TRUE,
                    [ResultDirs |-> info.ArtifactPaths,
                     S3DestDir |-> <<WorkflowName, TaskID, task.Name, "test-result">>,
                     DestDir |-> DestDir(info)])>>
    ELSE <<>>

JunitReportSteps(a, info, task) ==
    IF info.TestResultPath # ""
    THEN <<StepTask(<<TestJobJunitReportStepName>>, task.Name, StepJunitReport, TRUE,
                    [ReportDir |-> info.TestResultPath,
                     S3DestDir |-> <<WorkflowName, TaskID, task.Name, "junit">>,
                     DestDir |-> DestDir(info)])>>
    ELSE <<>>

CacheUploadSteps(a, task) ==
    IF ObjectCacheEnabled(task)
    THEN <<StepTask(<<a.testing.Name, "tar-archive">>, task.Name, StepTarArchive, FALSE,
                    [IgnoreErr |-> TRUE, TarDir |-> CacheDir(task),
                     S3DestDir |-> <<WorkflowName, "cache", a.testing.Name>>])>>
    ELSE <<>>

ObjectStorageEnabled(info) == info.PostTest = "enabled"

ObjectStorageSteps(info, task) ==
    IF ObjectStorageEnabled(info)
    THEN <<StepTask(<<TestJobObjectStorageStepName>>, task.Name, StepArchive, FALSE,
                    [ObjectStorageID |-> "s3-upload"])>>
    ELSE <<>>

\* variant: the cache is uploaded before the reports are collected
StepsUpToCacheUpload_EarlyUpload(a, info, task) ==
    task.Steps
    \o <<ToolInstallStep(a, task)>>
    \o DownloadArchiveSteps(a, task)
    \o <<GitStep(a, task), DebugBeforeStep(a, task), ScriptStep(a, info, task),
         DebugAfterStep(a, task)>>
    \o CacheUploadSteps(a, task)
    \o HtmlArchiveSteps(info, task)
    \o ResultArchiveSteps(info, task)
    \o JunitReportSteps(a, info, task)

\* the steps appended before the post-test object storage is looked up
StepsUpToCacheUpload(a, info, task) ==
    task.Steps
    \o <<ToolInstallStep(a, task)>>
    \o DownloadArchiveSteps(a, task)
    \o <<GitStep(a, task), DebugBeforeStep(a, task), ScriptStep(a, info, task),
         DebugAfterStep(a, task)>>
    \o HtmlArchiveSteps(info, task)
    \o ResultArchiveSteps(info, task)
    \o JunitReportSteps(a, info, task)
    \o CacheUploadSteps(a, task)

(***************************************************************************)
(* Testing job: the state of one TestingJob of a workflow                  *)
(***************************************************************************)
VARIABLES
    workflow,        \* j.workflow.Stages: the stages and their jobs
    catalog,         \* the names of the test suites the catalog holds
    jspec,           \* j.spec, the typed payload of the job
    tcall,           \* the last operation called on the job and its inputs
    tret             \* what that operation returned

tjVars == <<workflow, catalog, jspec, tcall, tret>>

(***************************************************************************)
(* Testing job task assembler: state and steps of one toJobtask call       *)
(***************************************************************************)
VARIABLES
    testingInfo,     \* the catalog definition of the test suite
    clusterCache,    \* the cache configuration of the task's cluster
    args,            \* the arguments of the toJobtask call
    jpc,             \* position inside toJobtask
    jobTask,         \* the task under construction
    jerr             \* the error toJobtask returns

jobVars == <<testingInfo, clusterCache, args, jpc, jobTask, jerr>>

JobInit ==
    /\ testingInfo \in TestingInfos
    /\ clusterCache \in ClusterCaches
    /\ args = NoArgs
    /\ jpc = "call"
    /\ jobTask = NoTask
    /\ jerr = "none"

\* the assembler at rest, for the behaviours of the commit operations
JobIdle ==
    /\ testingInfo = CHOOSE info \in TestingInfos : TRUE
    /\ clusterCache = CHOOSE c \in ClusterCaches : TRUE
    /\ args = NoArgs
    /\ jpc = "call"
    /\ jobTask = NoTask
    /\ jerr = "none"

\* toJobtask up to the cluster lookup: the catalog, image, registry and
\* cluster lookups and the task with its properties
ToJobtaskLookups ==
    /\ jpc = "call"
    /\ \E a \in ToJobtaskArgs, randStr \in RandStrs,
          failed \in {"none", "testing", "image", "registries", "cluster"} :
         /\ args' = a
         /\ IF failed \in {"testing", "image", "registries"}
            THEN /\ jobTask' = NoTask
                 /\ jerr' = failed
                 /\ jpc' = "done"
            ELSE /\ jobTask' = NewJobTask(a, testingInfo, randStr)
                 /\ jerr' = IF failed = "cluster" THEN failed ELSE "none"
                 /\ jpc' = IF failed = "cluster" THEN "done" ELSE "cache"
    /\ UNCHANGED <<testingInfo, clusterCache>>
    /\ UNCHANGED helmVars
    /\ UNCHANGED tjVars

\* the cache track
ToJobtaskCache ==
    /\ jpc = "cache"
    /\ \E found1, found2 \in BOOLEAN :
         LET r == CacheProperties(jobTask, testingInfo, clusterCache, found1, found2)
         IN /\ jobTask' = r.task
            /\ jerr' = IF r.err THEN "cache_s3" ELSE "none"
            /\ jpc' = IF r.err THEN "done" ELSE "envs"
    /\ UNCHANGED <<testingInfo, clusterCache, args>>
    /\ UNCHANGED helmVars
    /\ UNCHANGED tjVars

\* the assignment of Properties.Envs
ToJobtaskEnvs ==
    /\ jpc = "envs"
    /\ jobTask' = [jobTask EXCEPT !.Envs = TaskEnvs(jobTask, args)]
    /\ jpc' = "steps"
    /\ UNCHANGED <<testingInfo, clusterCache, args, jerr>>
    /\ UNCHANGED helmVars
    /\ UNCHANGED tjVars

\* the step pipeline and the return of toJobtask
ToJobtaskSteps ==
    /\ jpc = "steps"
    /\ \E found \in BOOLEAN :
         LET steps == StepsUpToCacheUpload(args, testingInfo, jobTask)
         IN IF ObjectStorageEnabled(testingInfo) /\ ~found
            THEN /\ jobTask' = [jobTask EXCEPT !.Steps = steps]
                 /\ jerr' = "upload_s3"
            ELSE /\ jobTask' = [jobTask EXCEPT !.Steps =
                                   steps \o ObjectStorageSteps(testingInfo, jobTask)]
                 /\ jerr' = "nil"
    /\ jpc' = "done"
    /\ UNCHANGED <<testingInfo, clusterCache, args>>
    /\ UNCHANGED helmVars
    /\ UNCHANGED tjVars

(***************************************************************************)
(* Testing job: constants and the jobs of the workflow                     *)
(***************************************************************************)
SourceRuntime == "runtime"
SourceFromJob == "fromjob"

JobZadigBuild == "zadig-build"
JobZadigDistributeImage == "zadig-distribute-image"
JobZadigDeploy == "zadig-deploy"
JobZadigScanning == "zadig-scanning"
JobZadigTesting == "zadig-test"
JobFreestyle == "freestyle"

\* a commonmodels.ServiceTestTarget
Target(s, m) == [ServiceName |-> s, ServiceModule |-> m]

\* a job of a stage; from is the job its spec takes its targets from ("" when
\* its source is not another job); targets is the list its spec declares:
\* ServiceAndBuilds of a build job, Targets of a distribute-image job,
\* TargetServices of a scanning job; services is the Services list of a
\* deploy job
WorkflowJob(name, jobType, from, targets, services) ==
    [Name |-> name, JobType |-> jobType, From |-> from,
     Targets |-> targets, Services |-> services]

\* a service of a deploy job with its modules
DeployService(s, modules) == [ServiceName |-> s, Modules |-> modules]

\* the targets of the modules of one deploy service
ModuleTargets(svc) ==
    [k \in DOMAIN svc.Modules |-> Target(svc.ServiceName, svc.Modules[k])]

\* the targets of a deploy job: every service, every module of it
RECURSIVE DeployTargets(_)
DeployTargets(services) ==
    IF services = <<>> THEN <<>>
    ELSE ModuleTargets(Head(services)) \o DeployTargets(Tail(services))

\* the job types getOriginReferedJobTargets answers from
ReferableJobTypes ==
    {JobZadigBuild, JobZadigDistributeImage, JobZadigDeploy, JobZadigScanning}

\* the targets a job of a referable type yields
JobTargets(job) ==
    IF job.JobType = JobZadigDeploy THEN DeployTargets(job.Services)
    ELSE [k \in DOMAIN job.Targets |->
             Target(job.Targets[k].ServiceName, job.Targets[k].ServiceModule)]

\* variant: the first job with the name answers, whatever its type
ScanJobs_AnyType(jobs, jobName) ==
    LET hits == {k \in DOMAIN jobs : jobs[k].Name = jobName}
    IN IF hits = {} THEN [found |-> FALSE, targets |-> <<>>]
       ELSE LET k == CHOOSE x \in hits : \A y \in hits : x <= y
            IN [found |-> jobs[k].JobType \in ReferableJobTypes,
                targets |-> IF jobs[k].JobType \in ReferableJobTypes
                            THEN JobTargets(jobs[k]) ELSE <<>>]

\* the inner loop of getOriginReferedJobTargets over the jobs of one stage
ScanJobs(jobs, jobName) ==
    LET hits == {k \in DOMAIN jobs :
                    jobs[k].Name = jobName /\ jobs[k].JobType \in ReferableJobTypes}
    IN IF hits = {} THEN [found |-> FALSE, targets |-> <<>>]
       ELSE LET k == CHOOSE x \in hits : \A y \in hits : x <= y
            IN [found |-> TRUE, targets |-> JobTargets(jobs[k])]

\* getOriginReferedJobTargets: the stages in order; err is "nil" or
\* "not_found"
RECURSIVE getOriginReferedJobTargets(_, _)
getOriginReferedJobTargets(stages, jobName) ==
    IF stages = <<>> THEN [err |-> "not_found", targets |-> <<>>]
    ELSE LET r == ScanJobs(Head(stages), jobName)
         IN IF r.found THEN [err |-> "nil", targets |-> r.targets]
            ELSE getOriginReferedJobTargets(Tail(stages), jobName)

\* getJobRankMap: the rank of every job name, its place in the order of
\* (stage index, job index); a later job of the same name overwrites an
\* earlier one, a name without job has the zero value
RankOf(stages, name) ==
    LET flat == Flatten(stages)
        hits == {k \in DOMAIN flat : flat[k].Name = name}
    IN IF hits = {} THEN 0 ELSE CHOOSE x \in hits : \A y \in hits : y <= x

\* whether getJobRankMap holds an entry for the name
Ranked(stages, name) == \E k \in DOMAIN Flatten(stages) : Flatten(stages)[k].Name = name

\* getOriginJobName: the job the chain of "from job" references starting
\* at jobName ends in, followed for at most depth references
RECURSIVE getOriginJobNameByRecursion(_, _, _)
getOriginJobNameByRecursion(stages, jobName, depth) ==
    LET flat == Flatten(stages)
        hits == {k \in DOMAIN flat : flat[k].Name = jobName /\ flat[k].From # ""}
    IN IF depth = 0 THEN ""
       ELSE IF hits = {} THEN jobName
       ELSE getOriginJobNameByRecursion(
                stages, flat[CHOOSE x \in hits : \A y \in hits : x <= y].From, depth - 1)

getOriginJobName(stages, jobName) == getOriginJobNameByRecursion(stages, jobName, 10)

(***************************************************************************)
(* Testing job: the spec of the job and the catalog                        *)
(***************************************************************************)
\* a commonmodels.TestModule
TestModule(name, keyVals, repos) ==
    [Name |-> name, ProjectName |-> "proj", KeyVals |-> keyVals, Repos |-> repos]

\* a commonmodels.ServiceAndTest: a test module and the service it tests
ServiceAndTest(name, keyVals, repos, s, m) ==
    [Name |-> name, ProjectName |-> "proj", KeyVals |-> keyVals, Repos |-> repos,
     ServiceName |-> s, ServiceModule |-> m]

\* &testing.TestModule of a ServiceAndTest
TestModuleOf(sat) ==
    [Name |-> sat.Name, ProjectName |-> sat.ProjectName,
     KeyVals |-> sat.KeyVals, Repos |-> sat.Repos]

\* the test suites of the catalog, in the order a listing returns them
CatalogOrder == <<"t1", "t2">>

\* testingInfo.Repos
CatalogRepos(name) == IF name = "t1" THEN <<"repo1", "repo0">> ELSE <<"repo2">>

\* testingInfo.PreTest.Envs
CatalogEnvs(name) == <<KeyVal("LEVEL", "catalog")>>

\* testingInfo.Outputs
CatalogOutputs(name) == IF name = "t1" THEN <<"o1", "o2">> ELSE <<"o3">>

\* the catalog definition the compiler reads: t1 runs on the cluster with
\* the object cache and a post-test upload, t2 runs on a VM
CatalogTestingInfo(name) ==
    [ Infrastructure |-> IF name = "t1" THEN JobK8sInfrastructure ELSE JobVMInfrastructure,
      CacheEnable    |-> TRUE,
      CacheDirType   |-> UserDefinedCacheDir,
      CacheUserDir   |-> <<Var("WORKFLOW"), Lit("/cache")>>,
      ScriptType     |-> ScriptTypeShell,
      TestReportPath |-> "report",
      ArtifactPaths  |-> <<"out">>,
      TestResultPath |-> "junit",
      PostTest       |-> IF name = "t1" THEN "enabled" ELSE "nil",
      Envs           |-> CatalogEnvs(name) ]

\* the cache of the cluster the compiled tasks run on
CatalogClusterCache ==
    [MediumType |-> ObjectMedium, Subpath |-> <<Var("TESTING_NAME")>>, ObjectID |-> "s3-cache"]

\* mergeRepos: the catalog repositories, then the job's repositories the
\* catalog does not declare; a repository is its identity
mergeRepos(origin, input) ==
    origin \o SelectSeq(input, LAMBDA r : \A k \in DOMAIN origin : origin[k] # r)

\* getOutputKey: one addressed key per declared output
getOutputKey(jobKey, outputs) ==
    [k \in DOMAIN outputs |-> [key |-> jobKey, output |-> outputs[k]]]

(***************************************************************************)
(* Testing job: SetPreset, MergeArgs, LintJob, GetOutPuts                  *)
(***************************************************************************)
IsProductTest(spec) == spec.TestType = ProductTestType
IsServiceTest(spec) == spec.TestType = ServiceTestType

\* whether a service-and-test entry is configured for the target
Tests(sat, target) ==
    sat.ServiceName = target.ServiceName /\ sat.ServiceModule = target.ServiceModule

\* SetPreset on one entry: the catalog repositories and defaults are merged
\* in when the catalog holds the suite, else the entry is skipped
PresetModule(testing, cat) ==
    IF testing.Name \in cat
    THEN [testing EXCEPT !.Repos = mergeRepos(CatalogRepos(testing.Name), @),
                         !.KeyVals = renderKeyVals(@, CatalogEnvs(testing.Name))]
    ELSE testing

\* variant: a target is kept when its service name alone is configured
PresetTargets_ServiceOnly(spec) ==
    SelectSeq(spec.TargetServices,
              LAMBDA target : \E k \in DOMAIN spec.ServiceAndTests :
                  spec.ServiceAndTests[k].ServiceName = target.ServiceName)

\* the targets SetPreset keeps: those whose service and module, joined as
\* "service/module", are a key of serviceMap (names hold no "/")
PresetTargets(spec) ==
    SelectSeq(spec.TargetServices,
              LAMBDA target : \E k \in DOMAIN spec.ServiceAndTests :
                  Tests(spec.ServiceAndTests[k], target))

\* the spec SetPreset leaves
SetPresetSpec(spec, stages, cat) ==
    LET s1 == IF IsProductTest(spec)
              THEN [spec EXCEPT !.TestModules =
                       [k \in DOMAIN @ |-> PresetModule(@[k], cat)]]
              ELSE spec
        s2 == IF s1.Source = SourceFromJob
              THEN [s1 EXCEPT !.OriginJobName = s1.JobName,
                              !.JobName = getOriginJobName(stages, s1.JobName)]
              ELSE s1
    IN IF IsServiceTest(s2)
       THEN [s2 EXCEPT !.ServiceAndTests =
                           [k \in DOMAIN @ |-> PresetModule(@[k], cat)],
                       !.TargetServices = PresetTargets(s2)]
       ELSE s2

\* MergeArgs on one entry and the override entry it matches
MergeModule(testing, argsTesting) ==
    [testing EXCEPT !.Repos = mergeRepos(@, argsTesting.Repos),
                    !.KeyVals = renderKeyVals(argsTesting.KeyVals, @)]

\* the product-level entries merged with the first override of the same name
MergeTestModules(testModules, argsModules) ==
    [k \in DOMAIN testModules |->
        LET hits == {a \in DOMAIN argsModules :
                        argsModules[a].Name = testModules[k].Name}
        IN IF hits = {} THEN testModules[k]
           ELSE MergeModule(testModules[k],
                            argsModules[CHOOSE x \in hits : \A y \in hits : x <= y])]

\* the service-level entries merged with the first override of the same
\* test name and service name
MergeServiceAndTests(tests, argsTests) ==
    [k \in DOMAIN tests |->
        LET hits == {a \in DOMAIN argsTests :
                        /\ argsTests[a].Name = tests[k].Name
                        /\ argsTests[a].ServiceName = tests[k].ServiceName}
        IN IF hits = {} THEN tests[k]
           ELSE MergeModule(tests[k],
                            argsTests[CHOOSE x \in hits : \A y \in hits : x <= y])]

\* variant: the override's targets are added to the job's targets
MergeTargets_Append(spec, argsSpec) ==
    spec.TargetServices \o argsSpec.TargetServices

\* the target list MergeArgs leaves on a service-level job
MergeTargets(spec, argsSpec) == argsSpec.TargetServices

\* the spec MergeArgs leaves; argsJob is the override job
MergeArgsSpec(spec, argsJob) ==
    IF JobName = argsJob.Name /\ JobZadigTesting = argsJob.JobType
    THEN LET s1 == IF IsProductTest(spec)
                   THEN [spec EXCEPT !.TestModules =
                            MergeTestModules(@, argsJob.Spec.TestModules)]
                   ELSE spec
         IN IF IsServiceTest(s1)
            THEN [s1 EXCEPT !.TargetServices = MergeTargets(s1, argsJob.Spec),
                            !.ServiceAndTests =
                                MergeServiceAndTests(@, argsJob.Spec.ServiceAndTests)]
            ELSE s1
    ELSE spec

\* variant: only a strictly later referenced job is rejected
LintJobErr_AllowEqualRank(spec, stages) ==
    IF spec.Source # SourceFromJob THEN "nil"
    ELSE IF ~Ranked(stages, spec.JobName)
            \/ RankOf(stages, spec.JobName) > RankOf(stages, JobName)
         THEN "can_not_quote"
         ELSE "nil"

\* the error LintJob returns
LintJobErr(spec, stages) ==
    IF spec.Source # SourceFromJob THEN "nil"
    ELSE IF ~Ranked(stages, spec.JobName)
            \/ RankOf(stages, spec.JobName) >= RankOf(stages, JobName)
         THEN "can_not_quote"
         ELSE "nil"

\* the (target, service-and-test) pairs in the order of the two loops of
\* ToJobs and GetOutPuts: every target, every entry configured for it
RECURSIVE ServicePairs(_, _)
ServicePairs(targets, tests) ==
    IF targets = <<>> THEN <<>>
    ELSE LET mine == SelectSeq(tests, LAMBDA sat : Tests(sat, Head(targets)))
         IN [k \in DOMAIN mine |-> [target |-> Head(targets), test |-> mine[k]]]
            \o ServicePairs(Tail(targets), tests)

\* TestingColl.List by names: the suites of the catalog among the names,
\* each once
ListTestings(cat, names) ==
    SelectSeq(CatalogOrder, LAMBDA n : n \in cat /\ n \in names)

\* the job key GetOutPuts addresses the outputs of one listed suite with
OutputJobKey(spec, name) ==
    LET pairs == ServicePairs(spec.TargetServices, spec.ServiceAndTests)
    IN IF IsServiceTest(spec) /\ pairs # <<>>
       THEN LET last == pairs[Len(pairs)]
            IN <<JobName, last.test.Name,
                 last.target.ServiceName, last.target.ServiceModule>>
       ELSE <<JobName, name>>

\* the output keys of the listed suites, one after the other
RECURSIVE OutputKeys(_, _)
OutputKeys(spec, names) ==
    IF names = <<>> THEN <<>>
    ELSE getOutputKey(OutputJobKey(spec, Head(names)), CatalogOutputs(Head(names)))
         \o OutputKeys(spec, Tail(names))

\* what GetOutPuts returns
GetOutPutsResp(spec, cat, listed) ==
    IF ~listed THEN <<>>
    ELSE OutputKeys(spec,
             ListTestings(cat, {spec.TestModules[k].Name : k \in DOMAIN spec.TestModules}))

(***************************************************************************)
(* Testing job: ToJobs                                                     *)
(***************************************************************************)
\* the lookups of toJobtask and ToJobs outside the catalog that can fail
NoMiss == [what |-> "none", name |-> ""]

Misses ==
    {NoMiss, [what |-> "default_s3", name |-> ""]}
    \cup [what : {"image", "registries", "cluster", "cache_s3", "upload_s3"},
          name : {"t1", "t2"}]

\* the lookup that fails while the task of argument a is compiled
MissFor(a, cat, miss) ==
    IF a.testing.Name \notin cat THEN "testing"
    ELSE IF miss.name = a.testing.Name THEN miss.what
    ELSE "none"

\* toJobtask as one call: the error ("nil" when none) and the task returned
toJobtask(a, info, cache, randStr, failed) ==
    IF failed \in {"testing", "image", "registries"}
    THEN [err |-> failed, task |-> NoTask]
    ELSE LET t0 == NewJobTask(a, info, randStr)
             c == CacheProperties(t0, info, cache,
                                  failed # "cache_s3", failed # "cache_s3")
             t1 == [c.task EXCEPT !.Envs = TaskEnvs(c.task, a)]
             steps == StepsUpToCacheUpload(a, info, t1)
         IN IF failed = "cluster" THEN [err |-> failed, task |-> t0]
            ELSE IF c.err THEN [err |-> "cache_s3", task |-> c.task]
            ELSE IF ObjectStorageEnabled(info) /\ failed = "upload_s3"
            THEN [err |-> "upload_s3", task |-> [t1 EXCEPT !.Steps = steps]]
            ELSE [err |-> "nil",
                  task |-> [t1 EXCEPT !.Steps = steps \o ObjectStorageSteps(info, t1)]]

\* the arguments of the toJobtask calls of the product-level loop
ProductArgs(testModules) ==
    [k \in DOMAIN testModules |->
        [testing |-> testModules[k], testType |-> ProductTestType,
         serviceName |-> "", serviceModule |-> ""]]

\* the arguments of the toJobtask calls of the service-level loops
ServiceArgs(targets, tests) ==
    LET pairs == ServicePairs(targets, tests)
    IN [k \in DOMAIN pairs |->
           [testing |-> TestModuleOf(pairs[k].test), testType |-> ServiceTestType,
            serviceName |-> pairs[k].test.ServiceName,
            serviceModule |-> pairs[k].test.ServiceModule]]

\* variant: a task that fails to compile is left out and the loop goes on
RECURSIVE CompileAll_SkipFailed(_, _, _, _, _)
CompileAll_SkipFailed(argsSeq, cat, miss, randStr, resp) ==
    IF argsSeq = <<>> THEN [err |-> "nil", resp |-> resp]
    ELSE LET a == Head(argsSeq)
             r == toJobtask(a, CatalogTestingInfo(a.testing.Name), CatalogClusterCache,
                            randStr, MissFor(a, cat, miss))
         IN CompileAll_SkipFailed(Tail(argsSeq), cat, miss, randStr,
                IF r.err # "nil" THEN resp ELSE Append(resp, r.task))

\* a compile loop of ToJobs: the tasks are appended to resp until one fails
RECURSIVE CompileAll(_, _, _, _, _)
CompileAll(argsSeq, cat, miss, randStr, resp) ==
    IF argsSeq = <<>> THEN [err |-> "nil", resp |-> resp]
    ELSE LET a == Head(argsSeq)
             r == toJobtask(a, CatalogTestingInfo(a.testing.Name), CatalogClusterCache,
                            randStr, MissFor(a, cat, miss))
         IN IF r.err # "nil" THEN [err |-> r.err, resp |-> resp]
            ELSE CompileAll(Tail(argsSeq), cat, miss, randStr, Append(resp, r.task))

\* variant: the resolved targets are added to the targets the spec holds
ResolvedTargets_Append(spec, targets) == spec.TargetServices \o targets

\* the target list ToJobs leaves when the source is another job
ResolvedTargets(spec, targets) == targets

\* ToJobs: the error, the tasks handed back and the spec it leaves
ToJobsResult(spec, stages, cat, miss, randStr) ==
    IF miss.what = "default_s3"
    THEN [err |-> "default_s3", resp |-> <<>>, spec |-> spec]
    ELSE
    LET p == IF IsProductTest(spec)
             THEN CompileAll(ProductArgs(spec.TestModules), cat, miss, randStr, <<>>)
             ELSE [err |-> "nil", resp |-> <<>>]
        s1 == IF spec.Source = SourceFromJob /\ spec.OriginJobName # ""
              THEN [spec EXCEPT !.JobName = spec.OriginJobName]
              ELSE spec
        t == getOriginReferedJobTargets(stages, s1.JobName)
        s2 == IF spec.Source = SourceFromJob
              THEN [s1 EXCEPT !.TargetServices = ResolvedTargets(s1, t.targets)]
              ELSE s1
        q == IF IsServiceTest(s2)
             THEN CompileAll(ServiceArgs(s2.TargetServices, s2.ServiceAndTests),
                             cat, miss, randStr, p.resp)
             ELSE p
    IN IF p.err # "nil" THEN [err |-> p.err, resp |-> p.resp, spec |-> spec]
       ELSE IF spec.Source = SourceFromJob /\ t.err # "nil"
       THEN [err |-> "resolve", resp |-> p.resp, spec |-> s1]
       ELSE [err |-> q.err, resp |-> q.resp, spec |-> s2]

(***************************************************************************)
(* Testing job: inputs and operations                                      *)
(***************************************************************************)
TA == Target("svcA", "modA")
TB == Target("svcB", "modB")
TAx == Target("svcA", "modX")
TC == Target("svcC", "modC")

TargetLists == { <<>>, <<TB, TA>>, <<TAx, TA, TC>> }

\* the workflows: the testing job after a build and a distribute job and
\* before a scanning job; the testing job beside a freestyle job named
\* build1 and before a stage with a freestyle and a deploy job of that name;
\* the testing job beside a scanning job and before a freestyle job
Workflows ==
    { << <<WorkflowJob("build1", JobZadigBuild, "", <<TA, TB>>, <<>>)>>,
         <<WorkflowJob("dist1", JobZadigDistributeImage, "build1", <<TB>>, <<>>)>>,
         <<WorkflowJob(JobName, JobZadigTesting, "", <<>>, <<>>)>>,
         <<WorkflowJob("scan1", JobZadigScanning, "", <<TA>>, <<>>)>> >>,
      << <<WorkflowJob("build1", JobFreestyle, "", <<>>, <<>>),
           WorkflowJob(JobName, JobZadigTesting, "", <<>>, <<>>)>>,
         <<WorkflowJob("build1", JobFreestyle, "", <<>>, <<>>),
           WorkflowJob("build1", JobZadigDeploy, "", <<>>,
                       <<DeployService("svcA", <<"modA", "modX">>),
                         DeployService("svcB", <<"modB">>)>>)>> >>,
      << <<WorkflowJob("scan1", JobZadigScanning, "", <<TB, TA>>, <<>>),
           WorkflowJob(JobName, JobZadigTesting, "", <<>>, <<>>)>>,
         <<WorkflowJob("dist1", JobFreestyle, "", <<>>, <<>>)>> >> }

\* the job names a call may refer to
RefNames == {"build1", "dist1", "scan1", "nope", JobName}

Catalogs == { {"t1", "t2"}, {"t2"} }

T1Module == TestModule("t1", <<KeyVal("LEVEL", "job")>>, <<"repo1">>)
T2Module == TestModule("t2", <<>>, <<"repoX">>)

T1onA == ServiceAndTest("t1", <<KeyVal("LEVEL", "job")>>, <<"repo1">>, "svcA", "modA")
T2onA == ServiceAndTest("t2", <<>>, <<"repoX">>, "svcA", "modA")
T2onB == ServiceAndTest("t2", <<>>, <<"repoX">>, "svcB", "modB")

\* the source of the job's targets and the job names the spec holds
References ==
    {[Source |-> SourceRuntime, JobName |-> "", OriginJobName |-> ""]}
    \cup [Source : {SourceFromJob}, JobName : RefNames, OriginJobName : {""}]
    \cup {[Source |-> SourceFromJob, JobName |-> "old", OriginJobName |-> "build1"]}

\* the specs a testing job starts with
TestingJobSpecs ==
    { [TestType |-> tt, Source |-> ref.Source, JobName |-> ref.JobName,
       OriginJobName |-> ref.OriginJobName, TargetServices |-> targets,
       TestModules |-> cfg.modules, ServiceAndTests |-> cfg.tests] :
      tt \in {ProductTestType}, ref \in References, targets \in {<<TA, TB>>},
      cfg \in {[modules |-> <<T1Module>>, tests |-> <<>>],
               [modules |-> <<T1Module, T2Module>>, tests |-> <<>>]} }
    \cup
    { [TestType |-> tt, Source |-> ref.Source, JobName |-> ref.JobName,
       OriginJobName |-> ref.OriginJobName, TargetServices |-> targets,
       TestModules |-> cfg.modules, ServiceAndTests |-> cfg.tests] :
      tt \in {ServiceTestType}, ref \in References, targets \in TargetLists,
      cfg \in {[modules |-> <<>>, tests |-> <<T1onA>>],
               [modules |-> <<T1Module>>, tests |-> <<T1onA, T2onA>>],
               [modules |-> <<T1Module, T2Module>>, tests |-> <<T1onA, T2onB>>]} }

NoSpec ==
    [TestType |-> ProductTestType, Source |-> SourceRuntime, JobName |-> "",
     OriginJobName |-> "", TargetServices |-> <<>>, TestModules |-> <<>>,
     ServiceAndTests |-> <<>>]

\* the override jobs handed to MergeArgs
OverrideSpecs ==
    { [NoSpec EXCEPT
          !.TargetServices = <<TB>>,
          !.TestModules = <<TestModule("t1", <<KeyVal("LEVEL", "args")>>, <<"repo9">>)>>,
          !.ServiceAndTests =
              <<ServiceAndTest("t1", <<KeyVal("LEVEL", "args")>>, <<"repo9">>,
                               "svcA", "modZ")>>],
      [NoSpec EXCEPT
          !.TargetServices = <<TC, TA>>,
          !.TestModules = <<TestModule("t2", <<KeyVal("MODE", "args")>>, <<>>)>>,
          !.ServiceAndTests =
              <<ServiceAndTest("t2", <<KeyVal("MODE", "args")>>, <<>>,
                               "svcB", "modB")>>] }

OverrideJobs ==
    [Name : {JobName}, JobType : {JobZadigTesting}, Spec : OverrideSpecs]
    \cup [Name : {"other-job"}, JobType : {JobZadigTesting},
          Spec : {CHOOSE o \in OverrideSpecs : o.TargetServices = <<TB>>}]
    \cup [Name : {JobName}, JobType : {JobFreestyle},
          Spec : {CHOOSE o \in OverrideSpecs : o.TargetServices = <<TB>>}]

NoJob == [Name |-> "", JobType |-> "", Spec |-> NoSpec]

NoCall == [op |-> "none", before |-> NoSpec, argsJob |-> NoJob, jobName |-> "",
           miss |-> NoMiss]

NoRet == [err |-> "none", resp |-> <<>>, targets |-> <<>>, outputs |-> <<>>]

TestingInit ==
    /\ workflow \in Workflows
    /\ catalog \in Catalogs
    /\ jspec \in TestingJobSpecs
    /\ tcall = NoCall
    /\ tret = NoRet

\* the testing job at rest, for the behaviours of the other components
TestingIdle ==
    /\ workflow = <<>>
    /\ catalog = {}
    /\ jspec = NoSpec
    /\ tcall = NoCall
    /\ tret = NoRet

SetPreset ==
    /\ tcall' = [NoCall EXCEPT !.op = "SetPreset", !.before = jspec]
    /\ jspec' = SetPresetSpec(jspec, workflow, catalog)
    /\ tret' = [NoRet EXCEPT !.err = "nil"]
    /\ UNCHANGED <<workflow, catalog>>
    /\ UNCHANGED helmVars
    /\ UNCHANGED jobVars

MergeArgs ==
    /\ \E argsJob \in OverrideJobs :
         /\ tcall' = [NoCall EXCEPT !.op = "MergeArgs", !.before = jspec,
                                    !.argsJob = argsJob]
         /\ jspec' = MergeArgsSpec(jspec, argsJob)
    /\ tret' = [NoRet EXCEPT !.err = "nil"]
    /\ UNCHANGED <<workflow, catalog>>
    /\ UNCHANGED helmVars
    /\ UNCHANGED jobVars

ToJobs ==
    /\ \E miss \in Misses, randStr \in RandStrs :
         LET r == ToJobsResult(jspec, workflow, catalog, miss, randStr)
         IN /\ tcall' = [NoCall EXCEPT !.op = "ToJobs", !.before = jspec, !.miss = miss]
            /\ jspec' = r.spec
            /\ tret' = [NoRet EXCEPT !.err = r.err, !.resp = r.resp]
    /\ UNCHANGED <<workflow, catalog>>
    /\ UNCHANGED helmVars
    /\ UNCHANGED jobVars

\* one call of the cross-job resolver
ResolveTargets ==
    /\ \E jobName \in RefNames :
         LET r == getOriginReferedJobTargets(workflow, jobName)
         IN /\ tcall' = [NoCall EXCEPT !.op = "getOriginReferedJobTargets",
                                       !.before = jspec, !.jobName = jobName]
            /\ tret' = [NoRet EXCEPT !.err = r.err, !.targets = r.targets]
    /\ UNCHANGED <<workflow, catalog, jspec>>
    /\ UNCHANGED helmVars
    /\ UNCHANGED jobVars

LintJob ==
    /\ tcall' = [NoCall EXCEPT !.op = "LintJob", !.before = jspec]
    /\ tret' = [NoRet EXCEPT !.err = LintJobErr(jspec, workflow)]
    /\ UNCHANGED <<workflow, catalog, jspec>>
    /\ UNCHANGED helmVars
    /\ UNCHANGED jobVars

GetOutPuts ==
    /\ \E listed \in BOOLEAN :
         /\ tcall' = [NoCall EXCEPT !.op = "GetOutPuts", !.before = jspec,
                                    !.miss = IF listed THEN NoMiss
                                             ELSE [what |-> "list", name |-> ""]]
         /\ tret' = [NoRet EXCEPT !.err = "nil",
                                  !.outputs = GetOutPutsResp(jspec, catalog, listed)]
    /\ UNCHANGED <<workflow, catalog, jspec>>
    /\ UNCHANGED helmVars
    /\ UNCHANGED jobVars

TestingNext ==
    \/ SetPreset
    \/ MergeArgs
    \/ ToJobs
    \/ ResolveTargets
    \/ LintJob
    \/ GetOutPuts

(***************************************************************************)
(* Storage session (mongo.Session / transaction) and lock helpers          *)
(***************************************************************************)
\* the snapshot of a transaction is fixed by its first operation
Touch(p) == IF snap[p].set THEN snap[p] ELSE [set |-> TRUE, doc |-> db]

\* a document read through the session
SessionRead(p) == Touch(p).doc

\* a write inside a transaction conflicts when the document was committed by
\* another transaction after the snapshot was taken
WriteConflict(p) == Touch(p).doc.rev # db.rev

\* variant: envLock.Unlock is reached on the successful path only
Return_UnlockOnSuccess(p, r) ==
    /\ pc' = [pc EXCEPT ![p] = "idle"]
    /\ ret' = [ret EXCEPT ![p] = r]
    /\ lock' = IF lock = p /\ r = "nil" THEN NoProc ELSE lock
    /\ txn' = [txn EXCEPT ![p] = "none"]
    /\ snap' = [snap EXCEPT ![p] = NoSnap]
    /\ write' = [write EXCEPT ![p] = NoSnap]
    /\ newProductInfo' = [newProductInfo EXCEPT ![p] = NoDoc]
    /\ newServices' = [newServices EXCEPT ![p] = <<>>]
    /\ op' = [op EXCEPT ![p] = NoOp]
    /\ verErr' = [verErr EXCEPT ![p] = FALSE]

\* the operation returns r: the deferred envLock.Unlock and session.EndSession
\* run, the latter dropping a transaction that is still open
Return(p, r) ==
    /\ pc' = [pc EXCEPT ![p] = "idle"]
    /\ ret' = [ret EXCEPT ![p] = r]
    /\ lock' = IF lock = p THEN NoProc ELSE lock
    /\ txn' = [txn EXCEPT ![p] = "none"]
    /\ snap' = [snap EXCEPT ![p] = NoSnap]
    /\ write' = [write EXCEPT ![p] = NoSnap]
    /\ newProductInfo' = [newProductInfo EXCEPT ![p] = NoDoc]
    /\ newServices' = [newServices EXCEPT ![p] = <<>>]
    /\ op' = [op EXCEPT ![p] = NoOp]
    /\ verErr' = [verErr EXCEPT ![p] = FALSE]

\* the template orchestration selected by the production flag
ServiceOrchestration(production) ==
    IF production THEN template.ProductionServices ELSE template.Services

(***************************************************************************)
(* Commit operations                                                       *)
(***************************************************************************)
\* a caller enters one of the three commit operations
Call(p) ==
    /\ pc[p] = "idle"
    /\ started < MaxOps
    /\ LET production == db.Production IN
         \/ \E productSvc \in SvcInputs :
               op' = [op EXCEPT ![p] = [NoOp EXCEPT !.kind = "svc",
                         !.productSvc = productSvc, !.production = production]]
         \/ \E services \in AllInputs :
               op' = [op EXCEPT ![p] = [NoOp EXCEPT !.kind = "all",
                         !.services = services, !.production = production]]
         \/ \E g \in GroupInputs :
               op' = [op EXCEPT ![p] = [NoOp EXCEPT !.kind = "group",
                         !.services = <<g.group>>, !.index = g.index,
                         !.production = production]]
    /\ pc' = [pc EXCEPT ![p] = "start"]
    /\ ret' = [ret EXCEPT ![p] = "none"]
    /\ started' = started + 1
    /\ UNCHANGED <<db, template, lock, txn, snap, newProductInfo, newServices, write,
                   verErr>>
    /\ UNCHANGED jobVars
    /\ UNCHANGED tjVars

\* mongo.StartTransaction(session)
StartTransaction(p) ==
    /\ pc[p] = "start"
    /\ \/ /\ txn' = [txn EXCEPT ![p] = "active"]
          /\ pc' = [pc EXCEPT ![p] = IF op[p].kind = "svc" THEN "version" ELSE "lock"]
          /\ UNCHANGED <<lock, snap, write, newProductInfo, newServices, op, ret, verErr>>
       \/ Return(p, "err_start")
    /\ UNCHANGED <<db, template, started>>
    /\ UNCHANGED jobVars
    /\ UNCHANGED tjVars

\* commonutil.CreateEnvServiceVersion(product, productSvc, user, session, ...):
\* a failure is logged and the operation goes on
CreateEnvServiceVersion(p) ==
    /\ pc[p] = "version"
    /\ \E ok \in BOOLEAN, touched \in BOOLEAN :
         /\ ok => touched
         /\ snap' = [snap EXCEPT ![p] = IF touched THEN Touch(p) ELSE @]
         /\ verErr' = [verErr EXCEPT ![p] = ~ok]
    /\ pc' = [pc EXCEPT ![p] = "lock"]
    /\ UNCHANGED <<db, template, lock, op, txn, newProductInfo, newServices, write,
                   ret, started>>
    /\ UNCHANGED jobVars
    /\ UNCHANGED tjVars

\* envLock.Lock()
EnvLock(p) ==
    /\ pc[p] = "lock"
    /\ lock = NoProc
    /\ lock' = p
    /\ pc' = [pc EXCEPT ![p] = IF op[p].kind = "svc" THEN "find" ELSE "template"]
    /\ UNCHANGED <<db, template, op, txn, snap, newProductInfo, newServices, write,
                   ret, verErr, started>>
    /\ UNCHANGED jobVars
    /\ UNCHANGED tjVars

\* productColl.Find of UpdateHelmServiceInEnv
FindProduct(p) ==
    /\ pc[p] = "find"
    /\ \/ Return(p, "err_find")
       \/ /\ newProductInfo' = [newProductInfo EXCEPT ![p] = SessionRead(p)]
          /\ snap' = [snap EXCEPT ![p] = Touch(p)]
          /\ pc' = [pc EXCEPT ![p] = "apply"]
          /\ UNCHANGED <<lock, txn, write, newServices, op, ret, verErr>>
    /\ UNCHANGED <<db, template, started>>
    /\ UNCHANGED jobVars
    /\ UNCHANGED tjVars

\* UpdateHelmServiceInEnv from the maps to the deploy strategy: the template
\* find, the reconciled list and the strategy of the updated service
ReconcileService(p) ==
    /\ pc[p] = "apply"
    /\ \/ Return(p, "err_template")
       \/ LET productSvc == op[p].productSvc
              linted == LintServices(newProductInfo[p].Services)
              svcMap0 == GetServiceMap(linted)
              chartMap0 == GetChartServiceMap(linted)
              svcMaps == IF FromZadig(productSvc)
                         THEN {ApplyNative(svcMap0, productSvc)}
                         ELSE ApplyChartSvcMaps(svcMap0, productSvc)
              chartMap == IF FromZadig(productSvc)
                          THEN ApplyNativeChartMap(chartMap0, productSvc)
                          ELSE ApplyChart(chartMap0, productSvc)
          IN \E productSvcMap \in svcMaps, charts \in MapOrders(chartMap) :
               LET res == Reconcile(ServiceOrchestration(op[p].production),
                                    productSvcMap, charts)
               IN IF res.panic
                  THEN Return(p, "panic")
                  ELSE /\ newProductInfo' = [newProductInfo EXCEPT ![p] =
                              [@ EXCEPT !.Services = res.groups,
                                        !.ServiceDeployStrategy =
                                            SetDeployStrategy(@, productSvc)]]
                       /\ pc' = [pc EXCEPT ![p] = "update"]
                       /\ UNCHANGED <<lock, txn, snap, write, newServices, op, ret, verErr>>
    /\ UNCHANGED <<db, template, started>>
    /\ UNCHANGED jobVars
    /\ UNCHANGED tjVars

\* UpdateHelmAllServicesInEnv from the template find to the reconciled list
ReconcileAllServices(p) ==
    /\ pc[p] = "template"
    /\ op[p].kind = "all"
    /\ \/ Return(p, "err_template")
       \/ LET linted == LintServices(op[p].services)
              productSvcMap == GetServiceMap(linted)
          IN \E charts \in MapOrders(GetChartServiceMap(linted)) :
               LET res == Reconcile(ServiceOrchestration(op[p].production),
                                    productSvcMap, charts)
               IN IF res.panic
                  THEN Return(p, "panic")
                  ELSE /\ newServices' = [newServices EXCEPT ![p] = res.groups]
                       /\ snap' = [snap EXCEPT ![p] = Touch(p)]
                       /\ pc' = [pc EXCEPT ![p] = "update"]
                       /\ UNCHANGED <<lock, txn, write, newProductInfo, op, ret, verErr>>
    /\ UNCHANGED <<db, template, started>>
    /\ UNCHANGED jobVars
    /\ UNCHANGED tjVars

\* UpdateHelmServicesGroupInEnv from the template find to the new group
ReconcileServicesGroup(p) ==
    /\ pc[p] = "template"
    /\ op[p].kind = "group"
    /\ \/ Return(p, "err_template")
       \/ LET linted == LintServices(op[p].services)
              productSvcMap == GetServiceMap(linted)
          IN \E charts \in MapOrders(GetChartServiceMap(linted)) :
               /\ newServices' = [newServices EXCEPT ![p] =
                      <<ReconcileGroup(ServiceOrchestration(op[p].production),
                                       productSvcMap, charts)>>]
               /\ snap' = [snap EXCEPT ![p] = Touch(p)]
               /\ pc' = [pc EXCEPT ![p] = "update"]
               /\ UNCHANGED <<lock, txn, write, newProductInfo, op, ret, verErr>>
    /\ UNCHANGED <<db, template, started>>
    /\ UNCHANGED jobVars
    /\ UNCHANGED tjVars

\* UpdateServicesGroup: the group at index is set, missing groups are padded
SetGroup(services, index, group) ==
    [i \in 1..(IF index + 1 > Len(services) THEN index + 1 ELSE Len(services)) |->
        IF i = index + 1 THEN group
        ELSE IF i <= Len(services) THEN services[i] ELSE <<>>]

\* the document each operation asks the storage to write
UpdatedDoc(p) ==
    IF op[p].kind = "svc"
    THEN [newProductInfo[p] EXCEPT !.rev = SessionRead(p).rev]
    ELSE IF op[p].kind = "all"
    THEN [SessionRead(p) EXCEPT !.Services = newServices[p]]
    ELSE [SessionRead(p) EXCEPT !.Services =
              SetGroup(@, op[p].index, newServices[p][1])]

\* productColl.Update / UpdateAllServices / UpdateServicesGroup
UpdateProduct(p) ==
    /\ pc[p] = "update"
    /\ \/ /\ ~WriteConflict(p)
          /\ write' = [write EXCEPT ![p] = [set |-> TRUE, doc |-> UpdatedDoc(p)]]
          /\ pc' = [pc EXCEPT ![p] = "commit"]
          /\ UNCHANGED <<db, lock, txn, snap, newProductInfo, newServices, op, ret, verErr>>
       \/ Return(p, "err_update") /\ UNCHANGED db
    /\ UNCHANGED <<template, started>>
    /\ UNCHANGED jobVars
    /\ UNCHANGED tjVars

\* variant: the update is applied outside the transaction, so a failed
\* commit leaves it in place
CommitTransaction_NoRollback(p) ==
    /\ pc[p] = "commit"
    /\ \/ /\ db' = [write[p].doc EXCEPT !.rev = db.rev + 1]
          /\ Return(p, "nil")
       \/ /\ db' = [write[p].doc EXCEPT !.rev = db.rev + 1]
          /\ Return(p, "err_commit")
    /\ UNCHANGED <<template, started>>
    /\ UNCHANGED jobVars
    /\ UNCHANGED tjVars

\* mongo.CommitTransaction(session)
CommitTransaction(p) ==
    /\ pc[p] = "commit"
    /\ \/ /\ db' = [write[p].doc EXCEPT !.rev = db.rev + 1]
          /\ Return(p, "nil")
       \/ /\ UNCHANGED db
          /\ Return(p, "err_commit")
    /\ UNCHANGED <<template, started>>
    /\ UNCHANGED jobVars
    /\ UNCHANGED tjVars

JobNext ==
    \/ ToJobtaskLookups
    \/ ToJobtaskCache
    \/ ToJobtaskEnvs
    \/ ToJobtaskSteps

\* the commit operations at rest, for the behaviours of the assembler
HelmIdle ==
    /\ HelmInit
    /\ db = NoDoc
    /\ template = CHOOSE t \in Templates : TRUE

vars == <<helmVars, jobVars, tjVars>>

Init == HelmInit /\ JobIdle /\ TestingIdle

Next ==
    \E p \in Procs :
        \/ Call(p)
        \/ StartTransaction(p)
        \/ CreateEnvServiceVersion(p)
        \/ EnvLock(p)
        \/ FindProduct(p)
        \/ ReconcileService(p)
        \/ ReconcileAllServices(p)
        \/ ReconcileServicesGroup(p)
        \/ UpdateProduct(p)
        \/ CommitTransaction(p)

\* the concurrent commit operations
Spec == Init /\ [][Next]_vars

JobSpecInit == HelmIdle /\ JobInit /\ TestingIdle

\* one toJobtask call on every catalog definition and cluster cache
JobSpec == JobSpecInit /\ [][JobNext]_vars

TestingSpecInit == HelmIdle /\ JobIdle /\ TestingInit

\* the operations of one testing job, in any order
TestingSpec == TestingSpecInit /\ [][TestingNext]_vars

\* the callers' steps other than entering an operation
Progress(p) ==
    \/ StartTransaction(p)
    \/ CreateEnvServiceVersion(p)
    \/ FindProduct(p)
    \/ ReconcileService(p)
    \/ ReconcileAllServices(p)
    \/ ReconcileServicesGroup(p)
    \/ UpdateProduct(p)
    \/ CommitTransaction(p)

\* every started operation runs on, and the lock serves every waiting caller
FairSpec ==
    Spec /\ \A p \in Procs : WF_vars(Progress(p)) /\ SF_vars(EnvLock(p))

(***************************************************************************)
(* Properties of the commit operations                                     *)
(***************************************************************************)
\* the positions between envLock.Lock() and the return
InSection(p) == pc[p] \in {"find", "apply", "template", "update", "commit"}

\* C1: the read-reconcile-write sections of two concurrent commit operations
\* never interleave, the environment read inside the transaction of
\* UpdateHelmServiceInEnv is the committed one (no stale read), and the
\* document a transaction is about to commit was derived from the committed
\* one (no lost update).
C1_SerializedCommits ==
    /\ \A p, q \in Procs : (p # q /\ InSection(p)) => ~InSection(q)
    /\ \A p \in Procs : pc[p] = "apply" => newProductInfo[p] = db
    /\ \A p \in Procs : pc[p] = "commit" => write[p].doc.rev = db.rev

\* C2: the lock is acquired before the transaction is begun and held until it
\* is committed or aborted: a caller with an open transaction holds the lock.
C2_LockCoversTransaction ==
    \A p \in Procs : txn[p] = "active" => lock = p

\* C3: an operation that has returned does not hold the lock, whatever the exit
\* path; one that returns because the transaction could not be started never
\* held it; a caller waiting for the lock eventually acquires it.
C3_LockReleasedOnEveryExit ==
    /\ [](\A p \in Procs : pc[p] \in {"idle", "start", "version", "lock"} => lock # p)
    /\ [][\A p \in Procs :
             (pc[p] # "idle" /\ pc'[p] = "idle") =>
                 /\ lock' # p
                 /\ ret'[p] = "err_start" => lock # p]_vars
    /\ \A p \in Procs : (pc[p] = "lock") ~> (lock = p)

\* an operation failed after it had taken the lock, and another caller holds
\* the lock now
C3_Witness ==
    \E p, q \in Procs :
        /\ p # q
        /\ pc[p] = "idle"
        /\ ret[p] \in {"err_find", "err_template", "err_update", "err_commit", "panic"}
        /\ lock = q

NamesOf(group) == [k \in DOMAIN group |-> group[k].ServiceName]

\* the values of a Go map
MapValues(m) == {m[k] : k \in DOMAIN m}

SeqValues(q) == {q[k] : k \in DOMAIN q}

\* groups has the shape the template orchestration orch prescribes for the
\* native map svcMap and the chart map chartMap
TracksTemplate(groups, orch, svcMap, chartMap) ==
    /\ Len(groups) = Len(orch)
    /\ \A i \in 1..Len(groups) :
         LET native == SelectSeq(groups[i], FromZadig)
             charts == SelectSeq(groups[i], IsChart)
         IN /\ NamesOf(native) = SelectSeq(orch[i], LAMBDA n : n \in DOMAIN svcMap)
            /\ \A k \in DOMAIN native : native[k] = svcMap[native[k].ServiceName]
            /\ groups[i] = native \o charts
            /\ IF i < Len(groups) THEN charts = <<>>
               ELSE /\ SeqValues(charts) = MapValues(chartMap)
                    /\ Len(charts) = Cardinality(DOMAIN chartMap)
    /\ Len(groups) = 0 => DOMAIN chartMap = {}

B2 == NativeSvc("b", "rb", 2, ServiceDeployStrategyDeploy)

\* C5: the list built by UpdateHelmServiceInEnv and UpdateHelmAllServicesInEnv
\* has one group per group of the selected template orchestration, group i
\* holds in template order the native services the template declares in
\* group i that are in the native map, and every import-only release sits in
\* the last group after its native services; for template [[a,b],[c]], the
\* environment [[a,b],[c,r]] and the update b' the list is [[a,b'],[c,r]].
C5_ListTracksTemplate ==
    \A p \in Procs :
        pc[p] = "update" =>
            LET orch == ServiceOrchestration(op[p].production)
                read == LintServices(snap[p].doc.Services)
                productSvc == op[p].productSvc
            IN /\ op[p].kind = "all" =>
                    TracksTemplate(newServices[p], orch,
                                   GetServiceMap(op[p].services),
                                   GetChartServiceMap(op[p].services))
               /\ (op[p].kind = "svc" /\ FromZadig(productSvc)) =>
                    TracksTemplate(newProductInfo[p].Services, orch,
                        MapPut(GetServiceMap(read), productSvc.ServiceName, productSvc),
                        MapDelete(GetChartServiceMap(read), productSvc.ReleaseName))
               /\ (op[p].kind = "svc" /\ ~FromZadig(productSvc)) =>
                    \E gone \in SUBSET (DOMAIN GetServiceMap(read)) :
                        /\ Cardinality(gone) <= 1
                        /\ TracksTemplate(newProductInfo[p].Services, orch,
                               [n \in (DOMAIN GetServiceMap(read)) \ gone |->
                                    GetServiceMap(read)[n]],
                               MapPut(GetChartServiceMap(read), productSvc.ReleaseName,
                                      productSvc))
               /\ ( /\ op[p].kind = "svc"
                    /\ productSvc = B2
                    /\ orch = << <<"a", "b">>, <<"c">> >>
                    /\ snap[p].doc.Services = << <<A1, B1>>, <<C1svc, R1>> >> ) =>
                    newProductInfo[p].Services = << <<A1, B2>>, <<C1svc, R1>> >>

\* the update b' of the environment [[a,b],[c,r]] under the template
\* [[a,b],[c]] has been reconciled
C5_Witness ==
    \E p \in Procs :
        /\ pc[p] = "update"
        /\ op[p].kind = "svc"
        /\ op[p].productSvc = B2
        /\ ServiceOrchestration(op[p].production) = << <<"a", "b">>, <<"c">> >>
        /\ snap[p].doc.Services = << <<A1, B1>>, <<C1svc, R1>> >>
        /\ newProductInfo[p].Services = << <<A1, B2>>, <<C1svc, R1>> >>

\* C6: after UpdateHelmServiceInEnv has applied the updated service, no
\* native entry and chart entry of the list stand for the same release: a
\* native update leaves no chart entry of its release name, a chart update
\* leaves no native entry of its release name.
C6_NoDualEntry ==
    \A p \in Procs :
        (pc[p] = "update" /\ op[p].kind = "svc") =>
            LET productSvc == op[p].productSvc
                flat == Flatten(newProductInfo[p].Services)
            IN \A k \in DOMAIN flat :
                 flat[k].ReleaseName = productSvc.ReleaseName =>
                     FromZadig(flat[k]) = FromZadig(productSvc)

(***************************************************************************)
(* Properties of the task assembler                                        *)
(***************************************************************************)
\* the place of a step in the pipeline: 1 tool-install, 2 cache-download,
\* 3 checkout, 4 pre-script debug, 5 script, 6 post-script debug, 7 HTML
\* report archive, 8 result-artifact archive, 9 JUnit report, 10 cache-upload,
\* 11 post-test object-storage upload
SlotOf(step) ==
    IF step.StepType = StepTools THEN 1
    ELSE IF step.StepType = StepDownloadArchive THEN 2
    ELSE IF step.StepType = StepGit THEN 3
    ELSE IF step.StepType = StepDebugBefore THEN 4
    ELSE IF step.StepType = StepDebugAfter THEN 6
    ELSE IF step.StepType = StepArchive /\ step.Name = <<TestJobHTMLReportStepName>> THEN 7
    ELSE IF step.StepType = StepTarArchive /\ step.Name = <<TestJobArchiveResultStepName>>
         THEN 8
    ELSE IF step.StepType = StepJunitReport THEN 9
    ELSE IF step.StepType = StepTarArchive THEN 10
    ELSE IF step.StepType = StepArchive THEN 11
    ELSE 5

Slots == [i \in DOMAIN jobTask.Steps |-> SlotOf(jobTask.Steps[i])]

HasSlot(n) == \E i \in DOMAIN jobTask.Steps : Slots[i] = n

\* toJobtask has returned a task without error
Compiled == jpc = "done" /\ jerr = "nil"

C8_NoTarArchiveType ==
    (Compiled /\ testingInfo.TestReportPath # "" /\ testingInfo.ArtifactPaths = <<>>) =>
        /\ HasSlot(7)
        /\ \A i \in DOMAIN jobTask.Steps : jobTask.Steps[i].StepType # StepTarArchive

\* C8 amended: with TestReportPath set and ArtifactPaths empty the compiled
\* steps hold an HTML-archive step and no result-artifact archive step; a
\* step of the tar-archive type is then the cache-upload step, present
\* exactly when caching on the object medium is enabled.
C8_NoResultArchive ==
    (Compiled /\ testingInfo.TestReportPath # "" /\ testingInfo.ArtifactPaths = <<>>) =>
        /\ \E i \in DOMAIN jobTask.Steps :
              /\ jobTask.Steps[i].StepType = StepArchive
              /\ jobTask.Steps[i].Name = <<TestJobHTMLReportStepName>>
        /\ \A i \in DOMAIN jobTask.Steps :
              jobTask.Steps[i].Name # <<TestJobArchiveResultStepName>>
        /\ (\E i \in DOMAIN jobTask.Steps : jobTask.Steps[i].StepType = StepTarArchive)
              <=> (jobTask.CacheEnable /\ jobTask.Cache.MediumType = ObjectMedium)
        /\ \A i \in DOMAIN jobTask.Steps :
              jobTask.Steps[i].StepType = StepTarArchive =>
                  jobTask.Steps[i].Name = <<args.testing.Name, "tar-archive">>

\* a report path without artifact paths has been compiled with the object
\* cache enabled
C8_Witness ==
    /\ Compiled
    /\ testingInfo.TestReportPath # ""
    /\ testingInfo.ArtifactPaths = <<>>
    /\ jobTask.CacheEnable
    /\ jobTask.Cache.MediumType = ObjectMedium

\* C9: on cluster infrastructure with an empty cluster cache medium the
\* compiled CacheEnable is false whatever the catalog says and the steps hold
\* neither cache-download nor cache-upload; in every compiled task the
\* cache-download step is present exactly when the cache-upload step is.
C9_CacheForcedOff ==
    Compiled =>
        /\ (jobTask.Infrastructure # JobVMInfrastructure /\ clusterCache.MediumType = "") =>
              /\ ~jobTask.CacheEnable
              /\ \A i \in DOMAIN jobTask.Steps :
                    /\ jobTask.Steps[i].StepType # StepDownloadArchive
                    /\ jobTask.Steps[i].Name # <<args.testing.Name, "tar-archive">>
        /\ (\E i \in DOMAIN jobTask.Steps :
                jobTask.Steps[i].StepType = StepDownloadArchive)
              <=> (\E i \in DOMAIN jobTask.Steps :
                      jobTask.Steps[i].Name = <<args.testing.Name, "tar-archive">>)

\* a catalog entry with caching on has been compiled for a cluster without
\* cache medium
C9_Witness ==
    /\ Compiled
    /\ jobTask.Infrastructure = JobK8sInfrastructure
    /\ clusterCache.MediumType = ""
    /\ testingInfo.CacheEnable

\* C10: with caching enabled on cluster infrastructure the cache directory
\* and the NFS subpath of the compiled task are their templates rendered
\* against the task's resolved environment variables.
C10_CacheRenderedWithEnvs ==
    (Compiled /\ jobTask.Infrastructure # JobVMInfrastructure /\ jobTask.CacheEnable) =>
        /\ jobTask.CacheUserDir = renderEnv(testingInfo.CacheUserDir, jobTask.Envs)
        /\ jobTask.Cache.MediumType = NFSMedium =>
              jobTask.Cache.Subpath = renderEnv(clusterCache.Subpath, jobTask.Envs)

\* the steps of the compiled task whose type is a script type
ScriptSteps ==
    {i \in DOMAIN jobTask.Steps :
        jobTask.Steps[i].StepType \in {StepShell, StepBatchFile, StepPowerShell}}

\* C15: every task returned without error holds exactly one script step, of
\* type shell, batch-file or powershell as the catalog's script type says,
\* shell when the script type is empty, for every value of the script type.
C15_OneTypedScriptStep ==
    Compiled =>
        /\ Cardinality(ScriptSteps) = 1
        /\ \A i \in ScriptSteps :
              jobTask.Steps[i].StepType =
                  IF testingInfo.ScriptType = ScriptTypeBatchFile THEN StepBatchFile
                  ELSE IF testingInfo.ScriptType = ScriptTypePowerShell THEN StepPowerShell
                  ELSE StepShell
        /\ \A i \in DOMAIN jobTask.Steps : Slots[i] = 5 => i \in ScriptSteps

(***************************************************************************)
(* Properties of the testing job                                           *)
(***************************************************************************)
\* the jobs of the workflow in declaration order
Jobs == Flatten(workflow)

\* the jobs named name that the resolver can answer from
Referable(name) ==
    {k \in DOMAIN Jobs : Jobs[k].Name = name /\ Jobs[k].JobType \in ReferableJobTypes}

\* the number of modules of the first n services of a deploy job
RECURSIVE ModulesBefore(_, _)
ModulesBefore(services, n) ==
    IF n = 0 THEN 0 ELSE Len(services[n].Modules) + ModulesBefore(services, n - 1)

\* the targets answer the declared list entry by entry
AnswersList(targets, declared) ==
    /\ Len(targets) = Len(declared)
    /\ \A i \in DOMAIN declared :
          /\ targets[i].ServiceName = declared[i].ServiceName
          /\ targets[i].ServiceModule = declared[i].ServiceModule

\* the targets answer the modules of the services, service by service
AnswersServices(targets, services) ==
    /\ Len(targets) = ModulesBefore(services, Len(services))
    /\ \A n \in DOMAIN services : \A m \in DOMAIN services[n].Modules :
          targets[ModulesBefore(services, n - 1) + m] =
              Target(services[n].ServiceName, services[n].Modules[m])

\* C11: getOriginReferedJobTargets answers from the first job, in the order
\* of stages and of jobs in a stage, that has the name and is a build,
\* distribute-image, deploy or scanning job: one target per declared entry
\* in declaration order; jobs of the name and another type are passed over;
\* without such a job the call fails with the not-found error.
C11_ResolverAnswersFirstReferable ==
    tcall.op = "getOriginReferedJobTargets" =>
        IF Referable(tcall.jobName) = {}
        THEN tret.err = "not_found"
        ELSE LET k == CHOOSE x \in Referable(tcall.jobName) :
                          \A y \in Referable(tcall.jobName) : x <= y
             IN /\ tret.err = "nil"
                /\ IF Jobs[k].JobType = JobZadigDeploy
                   THEN AnswersServices(tret.targets, Jobs[k].Services)
                   ELSE AnswersList(tret.targets, Jobs[k].Targets)

\* the resolver has passed over a freestyle job named build1 and answered
\* from the deploy job of that name behind it
C11_Witness ==
    /\ tcall.op = "getOriginReferedJobTargets"
    /\ tcall.jobName = "build1"
    /\ \E k \in DOMAIN Jobs : Jobs[k].Name = "build1" /\ Jobs[k].JobType = JobFreestyle
    /\ tret.err = "nil"
    /\ tret.targets = <<TA, TAx, TB>>

\* the stages holding a job of the name
StagesOf(name) ==
    {n \in DOMAIN workflow : \E k \in DOMAIN workflow[n] : workflow[n][k].Name = name}

\* C12: LintJob succeeds whenever the source is not another job; with the
\* source another job it fails when the job names itself, when no job has
\* the referenced name and when the referenced job stands at a later stage,
\* and succeeds when the referenced job stands at an earlier stage.
C12_LintBackwardOnly ==
    tcall.op = "LintJob" =>
        /\ jspec.Source # SourceFromJob => tret.err = "nil"
        /\ jspec.Source = SourceFromJob =>
              /\ jspec.JobName = JobName => tret.err # "nil"
              /\ StagesOf(jspec.JobName) = {} => tret.err # "nil"
              /\ (/\ StagesOf(jspec.JobName) # {}
                  /\ \A n \in StagesOf(jspec.JobName), m \in StagesOf(JobName) : n > m)
                     => tret.err # "nil"
              /\ (/\ StagesOf(jspec.JobName) # {}
                  /\ \A n \in StagesOf(jspec.JobName), m \in StagesOf(JobName) : n < m)
                     => tret.err = "nil"

\* LintJob has accepted a reference to the build job two stages earlier
C12_Witness ==
    /\ tcall.op = "LintJob"
    /\ jspec.Source = SourceFromJob
    /\ jspec.JobName = "build1"
    /\ \A n \in StagesOf("build1"), m \in StagesOf(JobName) : n < m
    /\ tret.err = "nil"

\* the job name ToJobs resolves the targets of
OriginOf(spec) ==
    IF spec.OriginJobName # "" THEN spec.OriginJobName ELSE spec.JobName

\* the service and module a service-level task was compiled for
TaskTarget(task) == Target(task.Key[3], task.Key[4])

\* C13: with the source another job, every ToJobs call that returns without
\* error leaves as target list exactly the list the resolver returns for
\* OriginJobName, or for JobName when OriginJobName is empty, whatever the
\* list was before; the service-level tasks it hands back are those of the
\* new list, and no target that was only in the old list has a task.
C13_TargetsReplacedByResolved ==
    (tcall.op = "ToJobs" /\ tret.err = "nil" /\ tcall.before.Source = SourceFromJob) =>
        LET r == getOriginReferedJobTargets(workflow, OriginOf(tcall.before))
        IN /\ r.err = "nil"
           /\ jspec.TargetServices = r.targets
           /\ jspec.JobName = OriginOf(tcall.before)
           /\ IsServiceTest(jspec) =>
                 /\ \A i \in DOMAIN tret.resp :
                       \E k \in DOMAIN r.targets : TaskTarget(tret.resp[i]) = r.targets[k]
                 /\ \A k \in DOMAIN r.targets, n \in DOMAIN jspec.ServiceAndTests :
                       Tests(jspec.ServiceAndTests[n], r.targets[k]) =>
                           \E i \in DOMAIN tret.resp :
                               /\ TaskTarget(tret.resp[i]) = r.targets[k]
                               /\ tret.resp[i].Key[2] = jspec.ServiceAndTests[n].Name
                 /\ Len(tret.resp) = Len(ServicePairs(r.targets, jspec.ServiceAndTests))

\* a service-level job holding targets the referenced job does not declare
\* has been compiled into tasks
C13_Witness ==
    /\ tcall.op = "ToJobs"
    /\ tret.err = "nil"
    /\ tcall.before.Source = SourceFromJob
    /\ IsServiceTest(jspec)
    /\ \E k \in DOMAIN tcall.before.TargetServices :
          /\ \A n \in DOMAIN jspec.TargetServices :
                jspec.TargetServices[n] # tcall.before.TargetServices[k]
          /\ \E n \in DOMAIN jspec.ServiceAndTests :
                Tests(jspec.ServiceAndTests[n], tcall.before.TargetServices[k])
    /\ tret.resp # <<>>

\* the toJobtask calls a ToJobs call sets out to make, in order, given the
\* spec before the call: the product-level entries, or the service-level
\* pairs of the targets in force (none when the resolution fails)
Attempts(before) ==
    IF IsProductTest(before) THEN ProductArgs(before.TestModules)
    ELSE IF before.Source # SourceFromJob
    THEN ServiceArgs(before.TargetServices, before.ServiceAndTests)
    ELSE ServiceArgs(getOriginReferedJobTargets(workflow, OriginOf(before)).targets,
                     before.ServiceAndTests)

\* the cross-job target resolution of the call fails
ResolutionFails(before) ==
    /\ before.Source = SourceFromJob
    /\ getOriginReferedJobTargets(workflow, OriginOf(before)).err # "nil"

\* a lookup toJobtask makes for the attempt does not find its entry: the
\* catalog entry, the base image, the registries, the cluster, the cache
\* object store (looked up on cluster infrastructure with the object
\* medium), the post-test object store (looked up when enabled)
LookupFails(a, miss) ==
    \/ a.testing.Name \notin catalog
    \/ /\ miss.name = a.testing.Name
       /\ \/ miss.what \in {"image", "registries", "cluster"}
          \/ /\ miss.what = "cache_s3"
             /\ CatalogTestingInfo(a.testing.Name).Infrastructure # JobVMInfrastructure
             /\ CatalogClusterCache.MediumType = ObjectMedium
          \/ /\ miss.what = "upload_s3"
             /\ CatalogTestingInfo(a.testing.Name).PostTest = "enabled"

\* the key toJobtask gives the task of an attempt
AttemptKey(a) ==
    IF a.testType = ServiceTestType
    THEN <<JobName, a.testing.Name, a.serviceName, a.serviceModule>>
    ELSE <<JobName, a.testing.Name>>

Overrides(sat, argsTests) ==
    {a \in DOMAIN argsTests :
        argsTests[a].Name = sat.Name /\ argsTests[a].ServiceName = sat.ServiceName}

\* the key/values are those of the override followed by the entry's own
\* under keys the override does not set
KeyValsMerged(merged, own, override) ==
    /\ SubSeq(merged, 1, Len(override)) = override
    /\ SubSeq(merged, Len(override) + 1, Len(merged)) =
           SelectSeq(own, LAMBDA kv : \A k \in DOMAIN override : override[k].Key # kv.Key)

\* the repositories are the entry's own followed by the override's new ones
ReposMerged(merged, own, override) ==
    /\ SubSeq(merged, 1, Len(own)) = own
    /\ {merged[k] : k \in DOMAIN merged} =
           {own[k] : k \in DOMAIN own} \cup {override[k] : k \in DOMAIN override}

\* C16: MergeArgs leaves the spec as it was unless the override job has the
\* job's name and type; when it has and the job is service-level, the
\* target list is afterwards the override's target list, the entries of
\* the service-and-test list matching an override entry on test name and
\* service name carry the merged repositories and key/values, and every
\* other entry and every other field is as before.
C16_MergeArgsFrame ==
    tcall.op = "MergeArgs" =>
        LET before == tcall.before
            override == tcall.argsJob.Spec
        IN /\ (tcall.argsJob.Name # JobName \/ tcall.argsJob.JobType # JobZadigTesting)
                 => jspec = before
           /\ (/\ tcall.argsJob.Name = JobName
               /\ tcall.argsJob.JobType = JobZadigTesting
               /\ IsServiceTest(before)) =>
                 /\ jspec.TargetServices = override.TargetServices
                 /\ Len(jspec.ServiceAndTests) = Len(before.ServiceAndTests)
                 /\ \A k \in DOMAIN before.ServiceAndTests :
                       LET own == before.ServiceAndTests[k]
                           hits == Overrides(own, override.ServiceAndTests)
                       IN IF hits = {}
                          THEN jspec.ServiceAndTests[k] = own
                          ELSE \E a \in hits :
                                 /\ KeyValsMerged(jspec.ServiceAndTests[k].KeyVals, own.KeyVals,
                                                  override.ServiceAndTests[a].KeyVals)
                                 /\ ReposMerged(jspec.ServiceAndTests[k].Repos, own.Repos,
                                                override.ServiceAndTests[a].Repos)
                                 /\ Tests(jspec.ServiceAndTests[k], Target(own.ServiceName,
                                                                          own.ServiceModule))
                 /\ jspec = [before EXCEPT !.TargetServices = jspec.TargetServices,
                                           !.ServiceAndTests = jspec.ServiceAndTests]

\* a matching override has replaced a different target list and merged
\* one entry, on another module of the same service, but not the other
C16_Witness ==
    /\ tcall.op = "MergeArgs"
    /\ tcall.argsJob.Name = JobName
    /\ tcall.argsJob.JobType = JobZadigTesting
    /\ IsServiceTest(jspec)
    /\ tcall.before.TargetServices # <<>>
    /\ tcall.before.TargetServices # jspec.TargetServices
    /\ \E k \in DOMAIN jspec.ServiceAndTests :
          jspec.ServiceAndTests[k] # tcall.before.ServiceAndTests[k]
    /\ \E k \in DOMAIN jspec.ServiceAndTests :
          jspec.ServiceAndTests[k] = tcall.before.ServiceAndTests[k]

\* the entry is as SetPreset leaves an entry whose catalog lookup succeeds
Preset(merged, own) ==
    /\ SubSeq(merged.KeyVals, 1, Len(own.KeyVals)) = own.KeyVals
    /\ KeysIn(merged.KeyVals) = KeysIn(own.KeyVals) \cup KeysIn(CatalogEnvs(own.Name))
    /\ SubSeq(merged.Repos, 1, Len(CatalogRepos(own.Name))) = CatalogRepos(own.Name)
    /\ {merged.Repos[k] : k \in DOMAIN merged.Repos} =
           {own.Repos[k] : k \in DOMAIN own.Repos}
           \cup {CatalogRepos(own.Name)[k] : k \in DOMAIN CatalogRepos(own.Name)}
    /\ merged.Name = own.Name

\* the entries of the list are as SetPreset leaves them: untouched when the
\* catalog lacks the suite, merged when it holds it
PresetEntries(after, before) ==
    /\ Len(after) = Len(before)
    /\ \A k \in DOMAIN before :
          IF before[k].Name \in catalog
          THEN Preset(after[k], before[k])
          ELSE after[k] = before[k]

\* C17: SetPreset returns no error; an entry whose suite the catalog lacks
\* is left as it was and the entries after it are merged all the same; on a
\* service-level job the target list is afterwards the former list without
\* the targets whose service and module no service-and-test entry names,
\* in the former order, whether or not the catalog holds the entry's suite.
C17_PresetBestEffort ==
    tcall.op = "SetPreset" =>
        /\ tret.err = "nil"
        /\ IsProductTest(jspec) =>
              PresetEntries(jspec.TestModules, tcall.before.TestModules)
        /\ IsServiceTest(jspec) =>
              /\ PresetEntries(jspec.ServiceAndTests, tcall.before.ServiceAndTests)
              /\ jspec.TargetServices =
                    SelectSeq(tcall.before.TargetServices,
                              LAMBDA target :
                                  \E k \in DOMAIN tcall.before.ServiceAndTests :
                                      Tests(tcall.before.ServiceAndTests[k], target))

\* SetPreset has skipped the first entry, merged the second, dropped a
\* target without entry and kept the target of the skipped entry
C17_Witness ==
    /\ tcall.op = "SetPreset"
    /\ IsServiceTest(jspec)
    /\ Len(jspec.ServiceAndTests) = 2
    /\ jspec.ServiceAndTests[1].Name \notin catalog
    /\ jspec.ServiceAndTests[2] # tcall.before.ServiceAndTests[2]
    /\ Len(jspec.TargetServices) < Len(tcall.before.TargetServices)
    /\ \E k \in DOMAIN jspec.TargetServices :
          Tests(jspec.ServiceAndTests[1], jspec.TargetServices[k])

\* the test suite, service and module an attempt is compiled for
Combination(a) == <<a.testing.Name, a.serviceName, a.serviceModule>>

\* C18: in the list one ToJobs call hands back, two tasks compiled for
\* different (test suite, service, module) combinations differ in name and
\* in key; two service-level tests of one service and module get tasks of
\* different names.
C18_NamesAndKeysIdentify ==
    (tcall.op = "ToJobs" /\ tret.err = "nil") =>
        LET att == Attempts(tcall.before)
        IN \A i, j \in DOMAIN tret.resp :
              Combination(att[i]) # Combination(att[j]) =>
                  /\ tret.resp[i].Name # tret.resp[j].Name
                  /\ tret.resp[i].Key # tret.resp[j].Key

\* the elements of the list GetOutPuts returns
OutputsReturned == {tret.outputs[k] : k \in DOMAIN tret.outputs}

\* the tasks ToJobs compiles from the spec when every lookup finds its entry
CompiledTasks ==
    ToJobsResult(jspec, workflow, catalog, NoMiss, CHOOSE r \in RandStrs : TRUE).resp

\* C19: GetOutPuts returns, for every task ToJobs compiles from the same
\* spec and every output its test suite declares, the output key built
\* from the task's key and the output's name: with the 2-part key of every
\* product-level suite and the 4-part key of every service-level (test,
\* service, module) task.
C19_OutputsAddressCompiledTasks ==
    (tcall.op = "GetOutPuts" /\ tcall.miss = NoMiss /\ jspec.Source # SourceFromJob) =>
        \A i \in DOMAIN CompiledTasks :
            \A k \in DOMAIN CatalogOutputs(CompiledTasks[i].Key[2]) :
                [key |-> CompiledTasks[i].Key,
                 output |-> CatalogOutputs(CompiledTasks[i].Key[2])[k]] \in OutputsReturned

(***************************************************************************)
(* Reconciliation: no service lost, no group out of range                  *)
(***************************************************************************)
\* the services UpdateHelmAllServicesInEnv was called with
InputServices(p) == Flatten(LintServices(op[p].services))

\* the places of the stored list holding the service
PlacesOf(groups, svc) ==
    {k \in DOMAIN Flatten(groups) :
        IF FromZadig(svc)
        THEN FromZadig(Flatten(groups)[k]) /\ Flatten(groups)[k].ServiceName = svc.ServiceName
        ELSE IsChart(Flatten(groups)[k]) /\ Flatten(groups)[k].ReleaseName = svc.ReleaseName}

\* C20: reconciliation never indexes a group that does not exist, whatever
\* the template orchestration, one with zero groups included, and loses no
\* service: in the list UpdateHelmAllServicesInEnv is about to store every
\* import-only chart release of the input stands exactly once and every
\* native service of the input stands at least once, and the service
\* UpdateHelmServiceInEnv was called with stands in the list it is about
\* to store.
C20_NoServiceLostNoRangeError ==
    \A p \in Procs :
        /\ ret[p] # "panic"
        /\ (pc[p] = "update" /\ op[p].kind = "all") =>
              \A k \in DOMAIN InputServices(p) :
                  IF IsChart(InputServices(p)[k])
                  THEN Cardinality(PlacesOf(newServices[p], InputServices(p)[k])) = 1
                  ELSE PlacesOf(newServices[p], InputServices(p)[k]) # {}
        /\ (pc[p] = "update" /\ op[p].kind = "svc") =>
              PlacesOf(newProductInfo[p].Services, op[p].productSvc) # {}

====
